---- MODULE Spec2Model ----
(***************************************************************************)
(* A model of the API test harness: ApiClient (get, validateResponseTime,  *)
(* concurrentRequests, healthCheck) over the Playwright request context,   *)
(* and ResponseValidator.validateApiResponse.                              *)
(*                                                                         *)
(* One top-level client call runs at a time.  An async function is cut at  *)
(* its awaits: the part up to the first await is one action, the           *)
(* continuation after the awaited promise settles is another.              *)
(***************************************************************************)
EXTENDS Integers, Sequences, FiniteSets, TLC

VARIABLES
    clock,          \* Date.now()
    server,         \* what the HTTP peer answers to a GET during the current call
    op,             \* the top-level client call in progress (or the last one)
    reqs,           \* the get() calls of the current top-level call, in order of initiation
    transportGets,  \* number of this.request.get() calls issued by the current call
    allPromise,     \* the Promise.all promise of concurrentRequests
    outcome,        \* how the top-level call settled
    prevGet,        \* the get() of the previous test: the response it got, its envelope
    vcall,          \* the call under test with its arguments: a ResponseValidator
                    \* call, or a GET as it reaches the mock server
    vret            \* ... and how it ended

vars == <<clock, server, op, reqs, transportGets, allPromise, outcome, prevGet, vcall, vret>>

clientVars == <<clock, server, op, reqs, transportGets, allPromise, outcome, prevGet>>
validatorVars == <<vcall, vret>>

-----------------------------------------------------------------------------
(* Bounds *)

MaxClock == 2
MaxConcurrency == 2

-----------------------------------------------------------------------------
(* JavaScript values *)

Undefined == [t |-> "undefined"]
Null == [t |-> "null"]
JsArray == [t |-> "array"]
JsObject == [t |-> "object"]

None == [t |-> "none"]

IsDefined(v) == v /= Undefined

-----------------------------------------------------------------------------
(* The HTTP peer *)

Statuses == {199, 200, 299, 300, 404}

JsonBodies == {"[]", "{\"error\":\"Not found\"}", "null"}
NonJsonBodies == {"<html>"}
Bodies == JsonBodies \cup NonJsonBodies

HeaderArrays ==
    { << >>,
      << [name |-> "content-type", value |-> "application/json"] >> }

Responses == [status : Statuses, body : Bodies, headersArray : HeaderArrays]

TransportErrors == {"connect ECONNREFUSED", "Request timed out"}

-----------------------------------------------------------------------------
(* ApiClient.get: the synchronous part, up to `await this.request.get` *)

BaseUrl == "http://localhost:3000"

Endpoints == {"/posts/1/comments", "/posts/invalid/comments"}
HealthEndpoint == "/health"

DefaultExpectedStatus == 200
DefaultTimeout == 10000
DefaultMaxResponseTime == 2000

NoOptions == [k \in {} |-> 0]

\* The options objects callers pass to get(); an absent key is an absent property.
OptionObjects ==
    { NoOptions,
      [expectedStatus |-> 404],
      [expectedStatus |-> 299, timeout |-> 5000, headers |-> [k \in {"X-Trace"} |-> "1"]],
      [headers |-> [k \in {"Accept"} |-> "text/html"]] }

\* const { expectedStatus = 200, timeout = 10000, headers = {} } = options
Destructure(options) ==
    [expectedStatus |-> IF "expectedStatus" \in DOMAIN options
                        THEN options.expectedStatus ELSE DefaultExpectedStatus,
     timeout |-> IF "timeout" \in DOMAIN options THEN options.timeout ELSE DefaultTimeout,
     headers |-> IF "headers" \in DOMAIN options THEN options.headers ELSE NoOptions]

\* A slip: the caller's headers are dropped.
RequestHeaders_AcceptOnly(headers) ==
    [k \in {"Accept"} |-> "application/json"]

\* { "Accept": "application/json", ...headers }
RequestHeaders(headers) ==
    [k \in {"Accept"} \cup DOMAIN headers |->
        IF k \in DOMAIN headers THEN headers[k] ELSE "application/json"]

\* `${this.baseUrl}${endpoint}`
Url(endpoint) == BaseUrl \o endpoint

\* The state of a get() call suspended at `await this.request.get(url, ...)`.
NewGet(endpoint, options, now) ==
    LET o == Destructure(options) IN
    [url |-> Url(endpoint),
     headers |-> RequestHeaders(o.headers),
     timeout |-> o.timeout,
     expectedStatus |-> o.expectedStatus,
     startTime |-> now,
     state |-> "pending",
     transport |-> None,
     responseTime |-> 0,
     envelope |-> None,
     failure |-> None,
     errlog |-> << >>]

-----------------------------------------------------------------------------
(* ApiClient.get: the continuation, once the transport promise settles *)

\* The resource routes of the mock server: the path around the id, the field
\* the records are filtered by, the data file, the "error" of the 404 body.
Routes ==
    { [prefix |-> "/posts/", suffix |-> "/comments", field |-> "postId",
       file |-> "comments.json", notFound |-> "No comments found for this post"],
      [prefix |-> "/albums/", suffix |-> "/photos", field |-> "albumId",
       file |-> "photos.json", notFound |-> "No photos found for this album"],
      [prefix |-> "/users/", suffix |-> "/albums", field |-> "userId",
       file |-> "albums.json", notFound |-> "No albums found for this user"],
      [prefix |-> "/users/", suffix |-> "/todos", field |-> "userId",
       file |-> "todos.json", notFound |-> "No todos found for this user"],
      [prefix |-> "/users/", suffix |-> "/posts", field |-> "userId",
       file |-> "posts.json", notFound |-> "No posts found for this user"] }

\* The foreign keys of the records a readable data file holds, in file order.
FixtureKeys == <<1, 1, 2>>

\* res.json(value): the JSON text of an error object (its "error" property
\* only) and of an array of records (the filtered field only).
ErrorBody(error) == "{\"error\":\"" \o error \o "\"}"

RECURSIVE RecordsText(_, _)
RecordsText(field, keys) ==
    IF keys = << >> THEN ""
    ELSE "{\"" \o field \o "\":" \o ToString(Head(keys)) \o "}"
         \o (IF Len(keys) > 1 THEN "," ELSE "") \o RecordsText(field, Tail(keys))

ArrayBody(field, keys) == "[" \o RecordsText(field, keys) \o "]"

InvalidIdError == "Invalid post ID format"
InternalServerError == "Internal server error"

MockErrorBodies ==
    {ErrorBody(r.notFound) : r \in Routes}
        \cup {ErrorBody(InvalidIdError), ErrorBody(InternalServerError)}

MockArrayBodies ==
    {ArrayBody(r.field, SelectSeq(FixtureKeys, LAMBDA k : k = n)) :
        r \in Routes, n \in {1, 2}}

\* response.json()
ResponseJson(body) ==
    IF body = "[]" THEN [ok |-> TRUE, value |-> JsArray]
    ELSE IF body = "{\"error\":\"Not found\"}" THEN [ok |-> TRUE, value |-> JsObject]
    ELSE IF body = "null" THEN [ok |-> TRUE, value |-> Null]
    ELSE IF body \in MockErrorBodies THEN [ok |-> TRUE, value |-> JsObject]
    ELSE IF body \in MockArrayBodies THEN [ok |-> TRUE, value |-> JsArray]
    ELSE [ok |-> FALSE, value |-> Undefined]

\* Object.fromEntries(response.headersArray().map(h => [h.name, h.value]))
RECURSIVE FromEntries(_)
FromEntries(arr) ==
    IF arr = << >> THEN [k \in {} |-> ""]
    ELSE LET rest == FromEntries(SubSeq(arr, 1, Len(arr) - 1))
             last == arr[Len(arr)]
         IN [k \in DOMAIN rest \cup {last.name} |->
                IF k = last.name THEN last.value ELSE rest[k]]

\* A slip: the upper end of the success range taken inclusively.
IsSuccessStatus_InclusiveUpper(status) == status >= 200 /\ status <= 300

IsSuccessStatus(status) == status >= 200 /\ status < 300

\* The standardized response object.
ApiResponse(status, responseData, headersArray) ==
    [data |-> IF IsSuccessStatus(status) THEN responseData ELSE Undefined,
     error |-> IF ~IsSuccessStatus(status) THEN responseData ELSE Undefined,
     status |-> status,
     headers |-> [t |-> "object", map |-> FromEntries(headersArray)]]

ErrorMessage(e) == e.message

\* The inner catch: throw new Error(`Invalid JSON response from ${url}`)
ParseFailure(url) ==
    [name |-> "Error", message |-> <<"Invalid JSON response from", url>>]

\* The rejection of this.request.get (connection refused, timeout).
TransportFailure(m) ==
    [name |-> "Error", message |-> <<"apiRequestContext.get:", m>>]

Answered(response) == [t |-> "response", response |-> response]
Failed(error) == [t |-> "error", error |-> error]

\* A slip: the rethrown error names neither the URL nor the cause.
OuterCatchError_NoContext(url, error, responseTime) ==
    [name |-> "Error", message |-> <<"API request failed">>]

\* The outer catch: throw new Error(`API request to ${url} failed: ${error.message}`)
OuterCatchError(url, error, responseTime) ==
    [name |-> "Error",
     message |-> <<"API request to", url, "failed:">> \o ErrorMessage(error)]

\* The console.error lines of the outer catch.
OuterCatchLog(url, error, responseTime) ==
    << <<"[API Error] Request failed after", ToString(responseTime), "ms:">>
          \o ErrorMessage(error),
       <<"[API Error] URL:", url>> >>

\* The console.error lines of a status mismatch.
MismatchLog(url, status, expectedStatus, body) ==
    IF status /= expectedStatus
    THEN << <<"[API Error] Unexpected status code:", ToString(status),
              "expected:", ToString(expectedStatus)>>,
            <<"[API Error] Response body:", body>>,
            <<"[API Failure] GET", url, "failed with status", ToString(status)>> >>
    ELSE << >>

\* A slip: the envelope classified by the caller's expectedStatus.
GetAfterResponse_ClassifyByExpected(req, response, now) ==
    LET responseTime == now - req.startTime
        parsed == ResponseJson(response.body)
        matches == response.status = req.expectedStatus
    IN IF ~parsed.ok
       THEN [req EXCEPT
               !.state = "rejected",
               !.transport = Answered(response),
               !.responseTime = responseTime,
               !.failure = OuterCatchError(req.url, ParseFailure(req.url), responseTime)]
       ELSE [req EXCEPT
               !.state = "resolved",
               !.transport = Answered(response),
               !.responseTime = responseTime,
               !.envelope = [data |-> IF matches THEN parsed.value ELSE Undefined,
                             error |-> IF ~matches THEN parsed.value ELSE Undefined,
                             status |-> response.status,
                             headers |-> [t |-> "object",
                                          map |-> FromEntries(response.headersArray)]]]

\* A slip: a body that does not parse is swallowed and treated as no body.
GetAfterResponse_SwallowParseError(req, response, now) ==
    LET responseTime == now - req.startTime
        parsed == ResponseJson(response.body)
    IN [req EXCEPT
          !.state = "resolved",
          !.transport = Answered(response),
          !.responseTime = responseTime,
          !.envelope = ApiResponse(response.status, parsed.value, response.headersArray),
          !.errlog = MismatchLog(req.url, response.status, req.expectedStatus,
                                 response.body)]

\* A slip: a status mismatch thrown instead of logged.
GetAfterResponse_ThrowOnMismatch(req, response, now) ==
    LET responseTime == now - req.startTime
        parsed == ResponseJson(response.body)
        mismatch == [name |-> "Error", message |-> <<"Unexpected status code">>]
    IN IF ~parsed.ok
       THEN [req EXCEPT
               !.state = "rejected",
               !.transport = Answered(response),
               !.responseTime = responseTime,
               !.failure = OuterCatchError(req.url, ParseFailure(req.url), responseTime)]
       ELSE IF response.status /= req.expectedStatus
       THEN [req EXCEPT
               !.state = "rejected",
               !.transport = Answered(response),
               !.responseTime = responseTime,
               !.failure = OuterCatchError(req.url, mismatch, responseTime)]
       ELSE [req EXCEPT
               !.state = "resolved",
               !.transport = Answered(response),
               !.responseTime = responseTime,
               !.envelope = ApiResponse(response.status, parsed.value,
                                        response.headersArray)]

\* get() after the transport answered with `response` at time `now`.
GetAfterResponse(req, response, now) ==
    LET responseTime == now - req.startTime
        parsed == ResponseJson(response.body)
    IN IF ~parsed.ok
       THEN [req EXCEPT
               !.state = "rejected",
               !.transport = Answered(response),
               !.responseTime = responseTime,
               !.failure = OuterCatchError(req.url, ParseFailure(req.url), responseTime),
               !.errlog = << <<"[API Error] Failed to parse JSON response:", response.body>> >>
                            \o OuterCatchLog(req.url, ParseFailure(req.url), responseTime)]
       ELSE [req EXCEPT
               !.state = "resolved",
               !.transport = Answered(response),
               !.responseTime = responseTime,
               !.envelope = ApiResponse(response.status, parsed.value, response.headersArray),
               !.errlog = MismatchLog(req.url, response.status, req.expectedStatus,
                                      response.body)]

\* get() after the transport rejected with `error` at time `now`.
GetAfterTransportError(req, error, now) ==
    LET responseTime == now - req.startTime
    IN [req EXCEPT
          !.state = "rejected",
          !.transport = Failed(error),
          !.responseTime = responseTime,
          !.failure = OuterCatchError(req.url, error, responseTime),
          !.errlog = OuterCatchLog(req.url, error, responseTime)]

-----------------------------------------------------------------------------
(* The callers of get() *)

NoOp == [kind |-> "none", endpoint |-> "", options |-> NoOptions, concurrency |-> 0,
         maxResponseTime |-> 0, startTime |-> 0]

Pending == [state |-> "pending"]
Resolved(v) == [state |-> "resolved", value |-> v]
Rejected(e) == [state |-> "rejected", error |-> e]

\* The promise get() returned, as its caller sees it.
GetPromise(req) ==
    IF req.state = "resolved" THEN Resolved(req.envelope)
    ELSE IF req.state = "rejected" THEN Rejected(req.failure)
    ELSE Pending

\* A slip: one request more than asked for.
RequestPromises_OneMore(endpoint, concurrency, now) ==
    [i \in 1..(concurrency + 1) |-> NewGet(endpoint, NoOptions, now)]

\* A slip: only the first request is launched up front.
RequestPromises_FirstOnly(endpoint, concurrency, now) ==
    [i \in 1..(IF concurrency > 1 THEN 1 ELSE concurrency) |->
        NewGet(endpoint, NoOptions, now)]

\* Array.from({ length: concurrency }, () => this.get(endpoint))
RequestPromises(endpoint, concurrency, now) ==
    [i \in 1..concurrency |-> NewGet(endpoint, NoOptions, now)]

\* A slip: Promise.allSettled-like joining that keeps the envelopes that arrived.
PromiseAll_KeepFulfilled(all, promises, i) ==
    IF all.state /= "pending" THEN all
    ELSE IF \A j \in DOMAIN promises : promises[j].state /= "pending"
         THEN Resolved(SelectSeq([j \in DOMAIN promises |-> promises[j].envelope],
                                 LAMBDA e : e /= None))
    ELSE all

\* A slip: the envelopes are listed last request first.
PromiseAll_ReverseOrder(all, promises, i) ==
    IF all.state /= "pending" THEN all
    ELSE IF promises[i].state = "rejected" THEN Rejected(promises[i].failure)
    ELSE IF \A j \in DOMAIN promises : promises[j].state = "resolved"
         THEN Resolved([j \in DOMAIN promises |->
                           promises[Len(promises) + 1 - j].envelope])
    ELSE all

\* Promise.all(requestPromises) after requestPromises[i] settled.
PromiseAll(all, promises, i) ==
    IF all.state /= "pending" THEN all
    ELSE IF promises[i].state = "rejected" THEN Rejected(promises[i].failure)
    ELSE IF \A j \in DOMAIN promises : promises[j].state = "resolved"
         THEN Resolved([j \in DOMAIN promises |-> promises[j].envelope])
    ELSE all

\* A slip: the comparison taken strictly.
ExpectToBeLessThanOrEqual_Strict(received, expected) ==
    IF received < expected THEN None
    ELSE [name |-> "Error",
          message |-> <<"expect(received).toBeLessThan(expected)",
                        ToString(received), ToString(expected)>>]

\* expect(received).toBeLessThanOrEqual(expected): None when it passes.
ExpectToBeLessThanOrEqual(received, expected) ==
    IF received <= expected THEN None
    ELSE [name |-> "Error",
          message |-> <<"expect(received).toBeLessThanOrEqual(expected)",
                        ToString(received), ToString(expected)>>]

\* validateResponseTime after `await this.get(endpoint)` settled.
ValidateResponseTimeResult(getPromise, startTime, maxResponseTime, now) ==
    LET responseTime == now - startTime
        thrown == ExpectToBeLessThanOrEqual(responseTime, maxResponseTime)
    IN IF getPromise.state = "rejected" THEN Rejected(getPromise.error)
       ELSE IF thrown /= None THEN Rejected(thrown)
       ELSE Resolved(responseTime)

\* concurrentRequests after `await Promise.all(requestPromises)` settled.
ConcurrentRequestsResult(all) ==
    IF all.state = "rejected" THEN Rejected(all.error) ELSE Resolved(all.value)

\* A slip: the catch rethrows.
HealthCheckResult_Rethrow(getPromise) ==
    IF getPromise.state = "rejected" THEN Rejected(getPromise.error)
    ELSE Resolved(getPromise.value.status = 200)

\* A slip: every 2xx status counts as healthy.
HealthCheckResult_Any2xx(getPromise) ==
    IF getPromise.state = "rejected" THEN Resolved(FALSE)
    ELSE Resolved(IsSuccessStatus(getPromise.value.status))

\* healthCheck after `await this.get("/health", ...)` settled.
HealthCheckResult(getPromise) ==
    IF getPromise.state = "rejected" THEN Resolved(FALSE)
    ELSE Resolved(getPromise.value.status = 200)

-----------------------------------------------------------------------------
(* ResponseValidator.validateApiResponse *)

\* typeof v
TypeOf(v) ==
    IF v.t = "undefined" THEN "undefined"
    ELSE IF v.t = "string" THEN "string"
    ELSE IF v.t = "number" THEN "number"
    ELSE IF v.t = "boolean" THEN "boolean"
    ELSE "object"    \* null, arrays and plain objects

Completed == [threw |-> FALSE, at |-> "none"]
Threw(at) == [threw |-> TRUE, at |-> at]

\* The expect() calls in order; the first one that fails throws.
ValidateApiResponse(response, args) ==
    LET expectedStatus == IF "expectedStatus" \in DOMAIN args
                          THEN args.expectedStatus ELSE DefaultExpectedStatus
    IN IF response.status /= expectedStatus THEN Threw("status")
       ELSE IF expectedStatus = 200 /\ response.data = Undefined THEN Threw("data")
       ELSE IF expectedStatus = 200 /\ response.error /= Undefined THEN Threw("error")
       ELSE IF expectedStatus /= 200 /\ response.error = Undefined THEN Threw("error")
       ELSE IF expectedStatus /= 200 /\ response.data /= Undefined THEN Threw("data")
       ELSE IF response.headers = Undefined THEN Threw("headers")
       ELSE IF TypeOf(response.headers) /= "object" THEN Threw("typeof headers")
       ELSE Completed

-----------------------------------------------------------------------------
(* Actions of the client *)

\* No test is running: the next one may begin.
Ready == op.kind = "none"

\* The running test's call has settled and none of its requests is in flight.
Idle ==
    /\ op.kind /= "none"
    /\ outcome.state /= "pending"
    /\ \A i \in DOMAIN reqs : reqs[i].state /= "pending"

MaxResponseTimes == {0, 1, DefaultMaxResponseTime}

Tick ==
    /\ ~Ready
    /\ ~Idle
    /\ clock < MaxClock
    /\ clock' = clock + 1
    /\ UNCHANGED <<server, op, reqs, transportGets, allPromise, outcome, prevGet,
                   vcall, vret>>

\* A test calls apiClient.get(endpoint, options).
CallGet(endpoint, options) ==
    /\ Ready
    /\ server' \in Responses
    /\ op' = [NoOp EXCEPT !.kind = "get", !.endpoint = endpoint, !.options = options,
                          !.startTime = clock]
    /\ reqs' = << NewGet(endpoint, options, clock) >>
    /\ transportGets' = 1
    /\ allPromise' = None
    /\ outcome' = Pending
    /\ UNCHANGED <<clock, prevGet, vcall, vret>>

\* A test calls apiClient.validateResponseTime(endpoint, maxResponseTime).
CallValidateResponseTime(endpoint, maxResponseTime) ==
    /\ Ready
    /\ server' \in Responses
    /\ op' = [NoOp EXCEPT !.kind = "validateResponseTime", !.endpoint = endpoint,
                          !.maxResponseTime = maxResponseTime, !.startTime = clock]
    /\ reqs' = << NewGet(endpoint, NoOptions, clock) >>
    /\ transportGets' = 1
    /\ allPromise' = None
    /\ outcome' = Pending
    /\ prevGet' = None
    /\ UNCHANGED <<clock, vcall, vret>>

\* A test calls apiClient.concurrentRequests(endpoint, concurrency).
CallConcurrentRequests(endpoint, concurrency) ==
    /\ Ready
    /\ server' \in Responses
    /\ op' = [NoOp EXCEPT !.kind = "concurrentRequests", !.endpoint = endpoint,
                          !.concurrency = concurrency, !.startTime = clock]
    /\ reqs' = RequestPromises(endpoint, concurrency, clock)
    /\ transportGets' = Len(reqs')
    /\ allPromise' = IF reqs' = << >> THEN Resolved(<< >>) ELSE Pending
    /\ outcome' = Pending
    /\ prevGet' = None
    /\ UNCHANGED <<clock, vcall, vret>>

\* A test calls apiClient.healthCheck().
CallHealthCheck ==
    /\ Ready
    /\ server' \in Responses
    /\ op' = [NoOp EXCEPT !.kind = "healthCheck", !.endpoint = HealthEndpoint,
                          !.options = [expectedStatus |-> 200], !.startTime = clock]
    /\ reqs' = << NewGet(HealthEndpoint, [expectedStatus |-> 200], clock) >>
    /\ transportGets' = 1
    /\ allPromise' = None
    /\ outcome' = Pending
    /\ prevGet' = None
    /\ UNCHANGED <<clock, vcall, vret>>

HealthyResponse ==
    [status |-> 200, body |-> "[]",
     headersArray |-> << [name |-> "content-type", value |-> "application/json"] >>]

NotFoundResponse ==
    [status |-> 404, body |-> "{\"error\":\"Not found\"}", headersArray |-> << >>]

\* The peer's answer to the same GET changes while requests of a batch are in
\* flight (the mock server reads its data file anew for every request).  With a
\* single request in flight this is the same as another choice at the call.
ServerChanges ==
    /\ op.kind = "concurrentRequests"
    /\ \E i \in DOMAIN reqs : reqs[i].state = "pending"
    /\ server' \in {HealthyResponse, NotFoundResponse} \ {server}
    /\ UNCHANGED <<clock, op, reqs, transportGets, allPromise, outcome, prevGet,
                   vcall, vret>>

\* A slip: a rejection aborts the requests still in flight.
Settle_AbortOthers(i, settled) ==
    /\ reqs' = [j \in DOMAIN reqs |->
                  IF j = i THEN settled
                  ELSE IF settled.state = "rejected" /\ reqs[j].state = "pending"
                  THEN [reqs[j] EXCEPT !.state = "rejected",
                                       !.failure = [name |-> "AbortError",
                                                    message |-> <<"aborted">>]]
                  ELSE reqs[j]]
    /\ allPromise' = IF op.kind = "concurrentRequests"
                     THEN PromiseAll(allPromise, reqs', i) ELSE allPromise
    /\ outcome' = IF op.kind = "get" THEN GetPromise(settled) ELSE outcome
    /\ UNCHANGED <<clock, server, op, transportGets, prevGet, vcall, vret>>

\* What settling get() number i means for the rest of the state.
Settle(i, settled) ==
    /\ reqs' = [reqs EXCEPT ![i] = settled]
    /\ allPromise' = IF op.kind = "concurrentRequests"
                     THEN PromiseAll(allPromise, reqs', i) ELSE allPromise
    /\ outcome' = IF op.kind = "get" THEN GetPromise(settled) ELSE outcome
    /\ UNCHANGED <<clock, server, op, transportGets, prevGet, vcall, vret>>

\* The transport answers get() number i; get() runs to its end.
TransportResponds(i) ==
    /\ i \in DOMAIN reqs
    /\ reqs[i].state = "pending"
    /\ Settle(i, GetAfterResponse(reqs[i], server, clock))

\* The transport fails get() number i; get() runs to its end.
TransportFails(i, m) ==
    /\ i \in DOMAIN reqs
    /\ reqs[i].state = "pending"
    /\ Settle(i, GetAfterTransportError(reqs[i], TransportFailure(m), clock))

FinishValidateResponseTime ==
    /\ op.kind = "validateResponseTime"
    /\ outcome.state = "pending"
    /\ reqs[1].state /= "pending"
    /\ outcome' = ValidateResponseTimeResult(GetPromise(reqs[1]), op.startTime,
                                             op.maxResponseTime, clock)
    /\ UNCHANGED <<clock, server, op, reqs, transportGets, allPromise, prevGet,
                   vcall, vret>>

FinishConcurrentRequests ==
    /\ op.kind = "concurrentRequests"
    /\ outcome.state = "pending"
    /\ allPromise.state /= "pending"
    /\ outcome' = ConcurrentRequestsResult(allPromise)
    /\ UNCHANGED <<clock, server, op, reqs, transportGets, allPromise, prevGet,
                   vcall, vret>>

FinishHealthCheck ==
    /\ op.kind = "healthCheck"
    /\ outcome.state = "pending"
    /\ reqs[1].state /= "pending"
    /\ outcome' = HealthCheckResult(GetPromise(reqs[1]))
    /\ UNCHANGED <<clock, server, op, reqs, transportGets, allPromise, prevGet,
                   vcall, vret>>

\* The test ends; the next one starts with a fresh client.  The client reads the
\* clock only to take differences, so time is counted from the start of the test.
TestEnds ==
    /\ Idle
    /\ clock' = 0
    /\ server' = HealthyResponse
    /\ op' = NoOp
    /\ reqs' = << >>
    /\ transportGets' = 0
    /\ allPromise' = None
    /\ outcome' = [state |-> "idle"]
    /\ prevGet' = IF op.kind = "get" /\ reqs[1].state = "resolved"
                  THEN [response |-> server,
                        expectedStatus |-> reqs[1].expectedStatus,
                        envelope |-> reqs[1].envelope]
                  ELSE prevGet
    /\ vcall' = None
    /\ vret' = None

\* The test hands the envelope get() returned to
\* ResponseValidator.validateApiResponse, with the status it expected or none.
ValidateEnvelope(args) ==
    /\ op.kind = "get"
    /\ outcome.state = "resolved"
    /\ vcall = None
    /\ args \in {NoOptions, [expectedStatus |-> reqs[1].expectedStatus]}
    /\ vcall' = [fn |-> "validateApiResponse", response |-> outcome.value, args |-> args]
    /\ vret' = ValidateApiResponse(outcome.value, args)
    /\ UNCHANGED clientVars

Init ==
    /\ clock = 0
    /\ server = HealthyResponse
    /\ op = NoOp
    /\ reqs = << >>
    /\ transportGets = 0
    /\ allPromise = None
    /\ outcome = [state |-> "idle"]
    /\ prevGet = None
    /\ vcall = None
    /\ vret = None

Next ==
    \/ Tick
    \/ \E e \in Endpoints, o \in OptionObjects : CallGet(e, o)
    \/ \E e \in Endpoints, m \in MaxResponseTimes : CallValidateResponseTime(e, m)
    \/ \E e \in Endpoints, n \in 0..MaxConcurrency : CallConcurrentRequests(e, n)
    \/ CallHealthCheck
    \/ \E i \in 1..MaxConcurrency : TransportResponds(i)
    \/ \E i \in 1..MaxConcurrency, m \in TransportErrors : TransportFails(i, m)
    \/ ServerChanges
    \/ FinishValidateResponseTime
    \/ FinishConcurrentRequests
    \/ FinishHealthCheck
    \/ \E args \in {NoOptions} \cup [expectedStatus : Statuses] : ValidateEnvelope(args)
    \/ TestEnds

Spec == Init /\ [][Next]_vars

-----------------------------------------------------------------------------
(* The envelopes validateApiResponse is applied to on its own *)

JsString == [t |-> "string"]

DataValues == {Undefined, Null, JsArray}
ErrorValues == {Undefined, JsObject}
HeaderValues == {Undefined, Null, JsString, [t |-> "object", map |-> FromEntries(<< >>)]}
ValidatedStatuses == {200, 201, 404}

Envelopes ==
    [data : DataValues, error : ErrorValues, status : ValidatedStatuses,
     headers : HeaderValues]

\* The arguments after `response`: expectedStatus may be omitted.
ExpectedStatusArgs == {NoOptions} \cup [expectedStatus : ValidatedStatuses]

\* A test calls ResponseValidator.validateApiResponse(response, expectedStatus).
CallValidateApiResponse ==
    /\ vcall.fn = "validateApiResponse"
    /\ vret = None
    /\ vret' = ValidateApiResponse(vcall.response, vcall.args)
    /\ UNCHANGED <<clientVars, vcall>>

-----------------------------------------------------------------------------
(* Values the validators are applied to *)

Num(n) == [t |-> "number", n |-> n]
\* A string is the sequence of its characters.
Str(x) == [t |-> "string", s |-> x]
Bool(x) == [t |-> "boolean", b |-> x]
ArrayOf(items) == [t |-> "array", items |-> items]
ObjectOf(fields) == [t |-> "object", fields |-> fields]

\* !v is true
Falsy(v) ==
    \/ v.t \in {"undefined", "null"}
    \/ v.t = "string" /\ v.s = << >>
    \/ v.t = "number" /\ v.n = 0
    \/ v.t = "boolean" /\ ~v.b

\* Array.isArray(v)
IsArray(v) == v.t = "array"

\* A validator's return, with what it wrote to console.error and, for the
\* array validator, the calls it made to the item predicate.
Returned(value, calls, errors) ==
    [threw |-> FALSE, at |-> "none", value |-> value, calls |-> calls, errors |-> errors]

-----------------------------------------------------------------------------
(* Bounded sequences *)

MaxItems == 3

RECURSIVE SeqsUpTo(_, _)
SeqsUpTo(S, n) ==
    IF n = 0 THEN {<< >>}
    ELSE LET shorter == SeqsUpTo(S, n - 1)
         IN shorter \cup {Append(q, x) : q \in {r \in shorter : Len(r) = n - 1}, x \in S}

-----------------------------------------------------------------------------
(* ResponseValidator.validateEmailFormat: two declarations of the same name *)

MaxEmailLen == 5

Letters == {"a", "b", "c", "e", "i", "l", "m", "n", "o", "t"}

IsWhitespace(c) == c = " "
IsAlnum(c) == c \in Letters

\* [^\s@]
NotSpaceNorAt(c) == ~IsWhitespace(c) /\ c /= "@"

\* [a-zA-Z0-9.!#$%&'*+/=?^_`{|}~-]
IsLocalChar(c) == IsAlnum(c) \/ c \in {".", "-"}

\* /^[^\s@]+@[^\s@]+\.[^\s@]+$/ as an automaton: the states reached from
\* state q on character c.  0 start, 1 in the local part, 2 after "@",
\* 3 before the dot, 4 after the dot, 5 in the last part (accepting).
SimpleRegexStep(q, c) ==
    IF q = 0 THEN (IF NotSpaceNorAt(c) THEN {1} ELSE {})
    ELSE IF q = 1 THEN (IF NotSpaceNorAt(c) THEN {1} ELSE IF c = "@" THEN {2} ELSE {})
    ELSE IF q = 2 THEN (IF NotSpaceNorAt(c) THEN {3} ELSE {})
    ELSE IF q = 3 THEN (IF c = "." THEN {3, 4} ELSE IF NotSpaceNorAt(c) THEN {3} ELSE {})
    ELSE (IF NotSpaceNorAt(c) THEN {5} ELSE {})

\* The first declaration's regex: local part, "@", then labels separated by
\* dots; a label starts and ends with a letter or digit, hyphens inside.
\* 0 start, 1 in the local part, 2 after "@", 3 label ending in a letter or
\* digit (accepting), 4 label ending in a hyphen, 5 after a dot.  (The limit
\* of 63 characters per label is beyond MaxEmailLen.)
Rfc5322RegexStep(q, c) ==
    IF q = 0 THEN (IF IsLocalChar(c) THEN {1} ELSE {})
    ELSE IF q = 1 THEN (IF IsLocalChar(c) THEN {1} ELSE IF c = "@" THEN {2} ELSE {})
    ELSE IF q = 2 THEN (IF IsAlnum(c) THEN {3} ELSE {})
    ELSE IF q = 3 THEN (IF IsAlnum(c) THEN {3} ELSE IF c = "-" THEN {4}
                        ELSE IF c = "." THEN {5} ELSE {})
    ELSE IF q = 4 THEN (IF IsAlnum(c) THEN {3} ELSE IF c = "-" THEN {4} ELSE {})
    ELSE (IF IsAlnum(c) THEN {3} ELSE {})

\* emailRegex.test(email): the automaton run over the characters from index i.
RECURSIVE RegexTest(_, _, _, _)
RegexTest(regex, chars, i, states) ==
    IF i > Len(chars)
    THEN (IF regex = "simple" THEN 5 \in states ELSE 3 \in states)
    ELSE RegexTest(regex, chars, i + 1,
                   UNION {IF regex = "simple" THEN SimpleRegexStep(q, chars[i])
                          ELSE Rfc5322RegexStep(q, chars[i]) : q \in states})

\* The static methods named validateEmailFormat, in the order of the class body.
ValidateEmailFormatDeclarations == <<"rfc5322", "simple">>

\* A slip: the first of the same-named declarations taken as the one in effect.
RuntimeDeclaration_First == ValidateEmailFormatDeclarations[1]

\* A later class member of the same name replaces the earlier one.
RuntimeDeclaration ==
    ValidateEmailFormatDeclarations[Len(ValidateEmailFormatDeclarations)]

ValidateEmailFormat(email) ==
    LET isValid == RegexTest(RuntimeDeclaration, email, 1, {0})
    IN Returned(isValid, << >>, << >>)

EmailAlphabet == {"a", "-", "@", ".", " "}

EmailExamples ==
    { <<"a", "@", "b", ".", "c", "o">>,
      <<"n", "o", "t", "-", "a", "n", "-", "e", "m", "a", "i", "l">>,
      <<"a", "@", "b">> }

ValidateEmailFormatCalls ==
    [fn : {"validateEmailFormat"},
     email : SeqsUpTo(EmailAlphabet, MaxEmailLen) \cup EmailExamples]

\* A test calls ResponseValidator.validateEmailFormat(email).
CallValidateEmailFormat ==
    /\ vcall.fn = "validateEmailFormat"
    /\ vret = None
    /\ vret' = ValidateEmailFormat(vcall.email)
    /\ UNCHANGED <<clientVars, vcall>>

-----------------------------------------------------------------------------
(* ResponseValidator.validateUrlFormat *)

UrlHttp == <<"h", "t", "t", "p", ":", "/", "/", "a", ".", "a">>
UrlHttps == <<"h", "t", "t", "p", "s", ":", "/", "/", "a", ".", "a", "/", "a">>
UrlHttpUpper == <<"H", "T", "T", "P", ":", "/", "/", "a", ".", "a">>
UrlHttpNoHost == <<"h", "t", "t", "p", ":", "/", "/">>
UrlFtp == <<"f", "t", "p", ":", "/", "/", "a", ".", "a">>
UrlMailto == <<"m", "a", "i", "l", "t", "o", ":", "a", "@", "a", ".", "a">>
NotAUrl == <<"n", "o", "t", " ", "a", " ", "u", "r", "l">>
UrlNoScheme == <<"a", ".", "a", "/", "a">>

UrlStrings ==
    {UrlHttp, UrlHttps, UrlHttpUpper, UrlHttpNoHost, UrlFtp, UrlMailto, NotAUrl,
     UrlNoScheme, << >>}

SchemeLetters ==
    {"a", "f", "h", "i", "l", "m", "o", "p", "s", "t", "H", "P", "T"}

ToLower(c) ==
    IF c = "H" THEN "h" ELSE IF c = "T" THEN "t" ELSE IF c = "P" THEN "p" ELSE c

SpecialSchemes ==
    { <<"h", "t", "t", "p">>, <<"h", "t", "t", "p", "s">>, <<"f", "t", "p">> }

\* new URL(url), with no base: the scheme is the letters before the first ":",
\* lower-cased; with none the string is a relative reference and the
\* constructor throws.  A special scheme needs a non-empty host without
\* spaces; anything may follow another scheme.
NewURL(url) ==
    LET colons == {i \in DOMAIN url : url[i] = ":"}
        colon == IF colons = {} THEN 0
                 ELSE CHOOSE i \in colons : \A j \in colons : i <= j
        scheme == [i \in 1..(colon - 1) |-> ToLower(url[i])]
        rest == SubSeq(url, colon + 1, Len(url))
        slashes == {i \in DOMAIN rest : \A j \in 1..i : rest[j] = "/"}
        afterSlashes == SubSeq(rest, Cardinality(slashes) + 1, Len(rest))
        hostEnds == {i \in DOMAIN afterSlashes : afterSlashes[i] = "/"}
        hostLen == IF hostEnds = {} THEN Len(afterSlashes)
                   ELSE (CHOOSE i \in hostEnds : \A j \in hostEnds : i <= j) - 1
        host == SubSeq(afterSlashes, 1, hostLen)
    IN IF colon <= 1 \/ \E i \in 1..(colon - 1) : url[i] \notin SchemeLetters
       THEN [ok |-> FALSE, protocol |-> << >>]
       ELSE IF scheme \in SpecialSchemes
               /\ (host = << >> \/ \E i \in DOMAIN host : IsWhitespace(host[i]))
       THEN [ok |-> FALSE, protocol |-> << >>]
       ELSE [ok |-> TRUE, protocol |-> Append(scheme, ":")]

\* A slip: every URL that parses is accepted, whatever its scheme.
ValidateUrlFormat_AnyScheme(url) ==
    Returned(NewURL(url).ok, << >>, << >>)

ValidateUrlFormat(url) ==
    LET urlObj == NewURL(url)
    IN IF ~urlObj.ok
       THEN Returned(FALSE, << >>, << <<"[Validation Error] Malformed URL:">> \o url >>)
       ELSE IF urlObj.protocol = <<"h", "t", "t", "p", ":">>
               \/ urlObj.protocol = <<"h", "t", "t", "p", "s", ":">>
       THEN Returned(TRUE, << >>, << >>)
       ELSE Returned(FALSE, << >>,
                     << <<"[Validation Error] Invalid URL protocol:">> \o url >>)

ValidateUrlFormatCalls == [fn : {"validateUrlFormat"}, url : UrlStrings]

\* A test calls ResponseValidator.validateUrlFormat(url).
CallValidateUrlFormat ==
    /\ vcall.fn = "validateUrlFormat"
    /\ vret = None
    /\ vret' = ValidateUrlFormat(vcall.url)
    /\ UNCHANGED <<clientVars, vcall>>

-----------------------------------------------------------------------------
(* ResponseValidator.assertResponseTime *)

\* maxTime: number = 2000
DefaultMaxTime == 2000

ResponseTimes == {0, 1, 1999, 2000, 2001}

\* The arguments after actualTime: maxTime may be omitted.
MaxTimeArgs == {NoOptions} \cup [maxTime : {0, 1, 2000}]

\* A slip: the ceiling compared strictly.
AssertResponseTime_Strict(actualTime, args) ==
    LET maxTime == IF "maxTime" \in DOMAIN args THEN args.maxTime
                   ELSE DefaultMaxTime
    IN IF actualTime < maxTime THEN Completed ELSE Threw("toBeLessThanOrEqual")

AssertResponseTime(actualTime, args) ==
    LET maxTime == IF "maxTime" \in DOMAIN args THEN args.maxTime
                   ELSE DefaultMaxTime
    IN IF ExpectToBeLessThanOrEqual(actualTime, maxTime) /= None
       THEN Threw("toBeLessThanOrEqual")
       ELSE Completed

AssertResponseTimeCalls ==
    [fn : {"assertResponseTime"}, actualTime : ResponseTimes, args : MaxTimeArgs]

\* A test calls ResponseValidator.assertResponseTime(actualTime, maxTime).
CallAssertResponseTime ==
    /\ vcall.fn = "assertResponseTime"
    /\ vret = None
    /\ vret' = AssertResponseTime(vcall.actualTime, vcall.args)
    /\ UNCHANGED <<clientVars, vcall>>

-----------------------------------------------------------------------------
(* The entities of types/api-responses.ts and their shape guards *)

\* obj.f: a property the value does not carry reads as undefined.
Get(obj, f) ==
    IF obj.t = "object" /\ "fields" \in DOMAIN obj /\ f \in DOMAIN obj.fields
    THEN obj.fields[f]
    ELSE Undefined

\* The interfaces: each required field with the typeof its values have.
CommentInterface ==
    [id |-> "number", postId |-> "number", name |-> "string", email |-> "string",
     body |-> "string"]
PhotoInterface ==
    [id |-> "number", albumId |-> "number", title |-> "string", url |-> "string",
     thumbnailUrl |-> "string"]
AlbumInterface == [id |-> "number", userId |-> "number", title |-> "string"]
TodoInterface ==
    [id |-> "number", userId |-> "number", title |-> "string",
     completed |-> "boolean"]
PostInterface ==
    [id |-> "number", userId |-> "number", title |-> "string", body |-> "string"]

IsComment(obj) ==
    /\ TypeOf(obj) = "object"
    /\ obj /= Null
    /\ TypeOf(Get(obj, "id")) = "number"
    /\ TypeOf(Get(obj, "postId")) = "number"
    /\ TypeOf(Get(obj, "name")) = "string"
    /\ TypeOf(Get(obj, "email")) = "string"
    /\ TypeOf(Get(obj, "body")) = "string"

\* A slip: the guard forgets the title.
IsPhoto_NoTitleCheck(obj) ==
    /\ TypeOf(obj) = "object"
    /\ obj /= Null
    /\ TypeOf(Get(obj, "id")) = "number"
    /\ TypeOf(Get(obj, "albumId")) = "number"
    /\ TypeOf(Get(obj, "url")) = "string"
    /\ TypeOf(Get(obj, "thumbnailUrl")) = "string"

IsPhoto(obj) ==
    /\ TypeOf(obj) = "object"
    /\ obj /= Null
    /\ TypeOf(Get(obj, "id")) = "number"
    /\ TypeOf(Get(obj, "albumId")) = "number"
    /\ TypeOf(Get(obj, "title")) = "string"
    /\ TypeOf(Get(obj, "url")) = "string"
    /\ TypeOf(Get(obj, "thumbnailUrl")) = "string"

IsAlbum(obj) ==
    /\ TypeOf(obj) = "object"
    /\ obj /= Null
    /\ TypeOf(Get(obj, "id")) = "number"
    /\ TypeOf(Get(obj, "userId")) = "number"
    /\ TypeOf(Get(obj, "title")) = "string"

\* A slip: the guard takes every non-null object with id, userId and title.
IsTodo_NoCompletedCheck(obj) ==
    /\ TypeOf(obj) = "object"
    /\ obj /= Null
    /\ TypeOf(Get(obj, "id")) = "number"
    /\ TypeOf(Get(obj, "userId")) = "number"
    /\ TypeOf(Get(obj, "title")) = "string"

IsTodo(obj) ==
    /\ TypeOf(obj) = "object"
    /\ obj /= Null
    /\ TypeOf(Get(obj, "id")) = "number"
    /\ TypeOf(Get(obj, "userId")) = "number"
    /\ TypeOf(Get(obj, "title")) = "string"
    /\ TypeOf(Get(obj, "completed")) = "boolean"

IsPost(obj) ==
    /\ TypeOf(obj) = "object"
    /\ obj /= Null
    /\ TypeOf(Get(obj, "id")) = "number"
    /\ TypeOf(Get(obj, "userId")) = "number"
    /\ TypeOf(Get(obj, "title")) = "string"
    /\ TypeOf(Get(obj, "body")) = "string"

-----------------------------------------------------------------------------
(* ResponseValidator: the entity validators *)

\* String.prototype.trim(): the characters without leading and trailing
\* whitespace.
RECURSIVE Trim(_)
Trim(chars) ==
    IF chars = << >> THEN << >>
    ELSE IF IsWhitespace(Head(chars)) THEN Trim(Tail(chars))
    ELSE IF IsWhitespace(chars[Len(chars)])
    THEN Trim(SubSeq(chars, 1, Len(chars) - 1))
    ELSE chars

\* !s || s.trim().length === 0, for a string s.
EmptyText(v) == Falsy(v) \/ Len(Trim(v.s)) = 0

\* expected !== undefined && actual !== expected: args holds the arguments
\* after the object, the expected foreign key first.
ForeignKeyMismatch(actual, args) ==
    Len(args) >= 1 /\ actual /= Num(args[1])

\* The declaration takes the comment only: further arguments are ignored.
ValidateCommentObject(comment, args) ==
    IF comment.t \in {"undefined", "null"} THEN Threw("TypeError")
    ELSE IF \/ Falsy(Get(comment, "postId"))
            \/ Falsy(Get(comment, "id"))
            \/ Falsy(Get(comment, "name"))
            \/ Falsy(Get(comment, "email"))
            \/ Falsy(Get(comment, "body"))
    THEN Returned(FALSE, << >>, << >>)
    ELSE IF \/ TypeOf(Get(comment, "postId")) /= "number"
            \/ TypeOf(Get(comment, "id")) /= "number"
            \/ TypeOf(Get(comment, "name")) /= "string"
            \/ TypeOf(Get(comment, "email")) /= "string"
            \/ TypeOf(Get(comment, "body")) /= "string"
    THEN Returned(FALSE, << >>, << >>)
    ELSE IF ~ValidateEmailFormat(Get(comment, "email").s).value
    THEN Returned(FALSE, << >>, << >>)
    ELSE IF \/ Len(Trim(Get(comment, "name").s)) = 0
            \/ Len(Trim(Get(comment, "email").s)) = 0
            \/ Len(Trim(Get(comment, "body").s)) = 0
    THEN Returned(FALSE, << >>, << >>)
    ELSE Returned(TRUE, << >>, << >>)

\* The class itself, the value of this in ResponseValidator.validatePhoto(...).
ResponseValidatorClass == [t |-> "function", name |-> "ResponseValidator"]

\* self is the value of this in the call.
ValidatePhoto(self, photo, args) ==
    IF ~IsPhoto(photo)
    THEN Returned(FALSE, << >>,
                  << <<"[Validation Error] Object does not match Photo interface">> >>)
    ELSE IF self.t = "undefined" THEN Threw("TypeError")
    ELSE IF ~ValidateUrlFormat(Get(photo, "url").s).value
    THEN Returned(FALSE, << >>, ValidateUrlFormat(Get(photo, "url").s).errors)
    ELSE IF ~ValidateUrlFormat(Get(photo, "thumbnailUrl").s).value
    THEN Returned(FALSE, << >>, ValidateUrlFormat(Get(photo, "thumbnailUrl").s).errors)
    ELSE IF ForeignKeyMismatch(Get(photo, "albumId"), args)
    THEN Returned(FALSE, << >>, << <<"[Validation Error] Photo albumId mismatch.">> >>)
    ELSE Returned(TRUE, << >>, << >>)

ValidateAlbum(album, args) ==
    IF ~IsAlbum(album)
    THEN Returned(FALSE, << >>,
                  << <<"[Validation Error] Object does not match Album interface">> >>)
    ELSE IF ForeignKeyMismatch(Get(album, "userId"), args)
    THEN Returned(FALSE, << >>, << <<"[Validation Error] Album userId mismatch.">> >>)
    ELSE IF EmptyText(Get(album, "title"))
    THEN Returned(FALSE, << >>, << <<"[Validation Error] Album title is empty">> >>)
    ELSE Returned(TRUE, << >>, << >>)

ValidateTodo(todo, args) ==
    IF ~IsTodo(todo)
    THEN Returned(FALSE, << >>,
                  << <<"[Validation Error] Object does not match Todo interface">> >>)
    ELSE IF TypeOf(Get(todo, "completed")) /= "boolean"
    THEN Returned(FALSE, << >>,
                  << <<"[Validation Error] Todo completed field is not boolean">> >>)
    ELSE IF ForeignKeyMismatch(Get(todo, "userId"), args)
    THEN Returned(FALSE, << >>, << <<"[Validation Error] Todo userId mismatch.">> >>)
    ELSE IF EmptyText(Get(todo, "title"))
    THEN Returned(FALSE, << >>, << <<"[Validation Error] Todo title is empty">> >>)
    ELSE Returned(TRUE, << >>, << >>)

ValidatePost(post, args) ==
    IF ~IsPost(post)
    THEN Returned(FALSE, << >>,
                  << <<"[Validation Error] Object does not match Post interface">> >>)
    ELSE IF ForeignKeyMismatch(Get(post, "userId"), args)
    THEN Returned(FALSE, << >>, << <<"[Validation Error] Post userId mismatch.">> >>)
    ELSE IF EmptyText(Get(post, "title"))
    THEN Returned(FALSE, << >>, << <<"[Validation Error] Post title is empty">> >>)
    ELSE IF EmptyText(Get(post, "body"))
    THEN Returned(FALSE, << >>, << <<"[Validation Error] Post body is empty">> >>)
    ELSE Returned(TRUE, << >>, << >>)

-----------------------------------------------------------------------------
(* The objects the guards and the entity validators are applied to *)

NumberFieldValues == {Undefined, Num(0), Num(1), Num(2), Str(<<"1">>)}
TextFieldValues == {Undefined, Str(<< >>), Str(<<" ">>), Str(<<"a">>), Num(1)}
EmailFieldValues ==
    {Undefined, Str(<<"a", "@", "a", ".", "a">>), Str(<<"a", "@", "a">>), Num(1)}
UrlFieldValues == {Undefined, Str(UrlHttp), Str(UrlFtp), Str(NotAUrl)}
CompletedFieldValues == {Undefined, Bool(TRUE), Bool(FALSE), Str(<<"a">>)}

NonObjects == {Undefined, Null, Num(1), Str(<<"a">>), Bool(TRUE), ArrayOf(<< >>)}

CommentObjects ==
    {ObjectOf(f) : f \in [id : NumberFieldValues, postId : NumberFieldValues,
                          name : TextFieldValues, email : EmailFieldValues,
                          body : TextFieldValues]}
PhotoObjects ==
    {ObjectOf(f) : f \in [id : NumberFieldValues, albumId : NumberFieldValues,
                          title : TextFieldValues, url : UrlFieldValues,
                          thumbnailUrl : UrlFieldValues]}
AlbumObjects ==
    {ObjectOf(f) : f \in [id : NumberFieldValues, userId : NumberFieldValues,
                          title : TextFieldValues]}
TodoObjects ==
    {ObjectOf(f) : f \in [id : NumberFieldValues, userId : NumberFieldValues,
                          title : TextFieldValues,
                          completed : CompletedFieldValues]}
PostObjects ==
    {ObjectOf(f) : f \in [id : NumberFieldValues, userId : NumberFieldValues,
                          title : TextFieldValues, body : TextFieldValues]}

\* The arguments after the object: none, or the expected foreign key.
ExpectedKeyArgs == {<< >>, <<1>>}

ShapeGuardCalls ==
    [fn : {"isComment"}, obj : CommentObjects \cup NonObjects]
        \cup [fn : {"isPhoto"}, obj : PhotoObjects \cup NonObjects]
        \cup [fn : {"isAlbum"}, obj : AlbumObjects \cup NonObjects]
        \cup [fn : {"isTodo"}, obj : TodoObjects \cup NonObjects]
        \cup [fn : {"isPost"}, obj : PostObjects \cup NonObjects]

EntityValidatorCalls ==
    [fn : {"validateCommentObject"}, obj : CommentObjects \cup NonObjects,
     args : ExpectedKeyArgs]
        \cup [fn : {"validatePhoto"}, self : {ResponseValidatorClass},
              obj : PhotoObjects \cup NonObjects, args : ExpectedKeyArgs]
        \cup [fn : {"validateAlbum"}, obj : AlbumObjects \cup NonObjects,
              args : ExpectedKeyArgs]
        \cup [fn : {"validateTodo"}, obj : TodoObjects \cup NonObjects,
              args : ExpectedKeyArgs]
        \cup [fn : {"validatePost"}, obj : PostObjects \cup NonObjects,
              args : ExpectedKeyArgs]

\* A test calls isComment(obj).
CallIsComment ==
    /\ vcall.fn = "isComment"
    /\ vret = None
    /\ vret' = Returned(IsComment(vcall.obj), << >>, << >>)
    /\ UNCHANGED <<clientVars, vcall>>

\* A test calls isPhoto(obj).
CallIsPhoto ==
    /\ vcall.fn = "isPhoto"
    /\ vret = None
    /\ vret' = Returned(IsPhoto(vcall.obj), << >>, << >>)
    /\ UNCHANGED <<clientVars, vcall>>

\* A test calls isAlbum(obj).
CallIsAlbum ==
    /\ vcall.fn = "isAlbum"
    /\ vret = None
    /\ vret' = Returned(IsAlbum(vcall.obj), << >>, << >>)
    /\ UNCHANGED <<clientVars, vcall>>

\* A test calls isTodo(obj).
CallIsTodo ==
    /\ vcall.fn = "isTodo"
    /\ vret = None
    /\ vret' = Returned(IsTodo(vcall.obj), << >>, << >>)
    /\ UNCHANGED <<clientVars, vcall>>

\* A test calls isPost(obj).
CallIsPost ==
    /\ vcall.fn = "isPost"
    /\ vret = None
    /\ vret' = Returned(IsPost(vcall.obj), << >>, << >>)
    /\ UNCHANGED <<clientVars, vcall>>

\* A test calls ResponseValidator.validateCommentObject(comment, ...args).
CallValidateCommentObject ==
    /\ vcall.fn = "validateCommentObject"
    /\ vret = None
    /\ vret' = ValidateCommentObject(vcall.obj, vcall.args)
    /\ UNCHANGED <<clientVars, vcall>>

\* A test calls ResponseValidator.validatePhoto(photo, expectedAlbumId).
CallValidatePhoto ==
    /\ vcall.fn = "validatePhoto"
    /\ vret = None
    /\ vret' = ValidatePhoto(vcall.self, vcall.obj, vcall.args)
    /\ UNCHANGED <<clientVars, vcall>>

\* A test calls ResponseValidator.validateAlbum(album, expectedUserId).
CallValidateAlbum ==
    /\ vcall.fn = "validateAlbum"
    /\ vret = None
    /\ vret' = ValidateAlbum(vcall.obj, vcall.args)
    /\ UNCHANGED <<clientVars, vcall>>

\* A test calls ResponseValidator.validateTodo(todo, expectedUserId).
CallValidateTodo ==
    /\ vcall.fn = "validateTodo"
    /\ vret = None
    /\ vret' = ValidateTodo(vcall.obj, vcall.args)
    /\ UNCHANGED <<clientVars, vcall>>

\* A test calls ResponseValidator.validatePost(post, expectedUserId).
CallValidatePost ==
    /\ vcall.fn = "validatePost"
    /\ vret = None
    /\ vret' = ValidatePost(vcall.obj, vcall.args)
    /\ UNCHANGED <<clientVars, vcall>>

-----------------------------------------------------------------------------
(* ResponseValidator.validateArrayResponse *)

\* Array elements, and the item predicates tests pass in: one reads the item,
\* one compares a field of the item with the first forwarded argument.
Items == [ok : BOOLEAN, key : {1, 2}]
ItemPredicates == {"itemOk", "keyEquals"}
ForwardedArgs == {<< >>, <<1>>}

\* The entity validators, passed as the method itself.
EntityPredicates ==
    {"validateCommentObject", "validatePhoto", "validateAlbum", "validateTodo",
     "validatePost"}

\* validator(item, ...validatorArgs) for a method taken off the class: the call
\* has no receiver, and in class code this is then undefined.
CallDetached(validator, item, validatorArgs) ==
    IF validator = "validateCommentObject" THEN ValidateCommentObject(item, validatorArgs)
    ELSE IF validator = "validatePhoto" THEN ValidatePhoto(Undefined, item, validatorArgs)
    ELSE IF validator = "validateAlbum" THEN ValidateAlbum(item, validatorArgs)
    ELSE IF validator = "validateTodo" THEN ValidateTodo(item, validatorArgs)
    ELSE ValidatePost(item, validatorArgs)

\* validator(item, ...validatorArgs) throws.
ValidatorThrows(validator, item, validatorArgs) ==
    validator \in EntityPredicates /\ CallDetached(validator, item, validatorArgs).threw

\* validator(item, ...validatorArgs), when it returns.
ApplyValidator(validator, item, validatorArgs) ==
    IF validator = "itemOk" THEN item.ok
    ELSE IF validator = "keyEquals"
    THEN Len(validatorArgs) >= 1 /\ item.key = validatorArgs[1]
    ELSE CallDetached(validator, item, validatorArgs).value

\* A slip: the loop goes on after a failing item and reports the last one.
RECURSIVE ValidateItems_NoShortCircuit(_, _, _, _, _)
ValidateItems_NoShortCircuit(items, validator, validatorArgs, i, calls) ==
    IF i >= Len(items) THEN Returned(TRUE, calls, << >>)
    ELSE LET made == Append(calls, [index |-> i, item |-> items[i + 1],
                                    args |-> validatorArgs])
             rest == ValidateItems_NoShortCircuit(items, validator, validatorArgs,
                                                  i + 1, made)
         IN IF ApplyValidator(validator, items[i + 1], validatorArgs) \/ ~rest.value
            THEN rest
            ELSE Returned(FALSE, rest.calls,
                          << <<"[Validation Error] Item at index", ToString(i),
                               "failed validation:">> >>)

\* The for loop from index i on (indexes count from 0).
RECURSIVE ValidateItems(_, _, _, _, _)
ValidateItems(items, validator, validatorArgs, i, calls) ==
    IF i >= Len(items) THEN Returned(TRUE, calls, << >>)
    ELSE LET made == Append(calls, [index |-> i, item |-> items[i + 1],
                                    args |-> validatorArgs])
         IN IF ValidatorThrows(validator, items[i + 1], validatorArgs)
            THEN Threw("TypeError")
            ELSE IF ~ApplyValidator(validator, items[i + 1], validatorArgs)
            THEN Returned(FALSE, made,
                          << <<"[Validation Error] Item at index", ToString(i),
                               "failed validation:">> >>)
            ELSE ValidateItems(items, validator, validatorArgs, i + 1, made)

\* A slip: an empty array reported as a failure.
ValidateArrayResponse_EmptyInvalid(response, validator, validatorArgs) ==
    IF Falsy(response.data) \/ ~IsArray(response.data)
    THEN Returned(FALSE, << >>,
                  << <<"[Validation Error] Response data is not an array">> >>)
    ELSE IF Len(response.data.items) = 0
    THEN Returned(FALSE, << >>, << >>)
    ELSE ValidateItems(response.data.items, validator, validatorArgs, 0, << >>)

\* A slip: missing data taken for an empty array.
ValidateArrayResponse_MissingIsEmpty(response, validator, validatorArgs) ==
    IF Falsy(response.data) THEN Returned(TRUE, << >>, << >>)
    ELSE IF ~IsArray(response.data)
    THEN Returned(FALSE, << >>,
                  << <<"[Validation Error] Response data is not an array">> >>)
    ELSE IF Len(response.data.items) = 0
    THEN Returned(TRUE, << >>, << >>)
    ELSE ValidateItems(response.data.items, validator, validatorArgs, 0, << >>)

ValidateArrayResponse(response, validator, validatorArgs) ==
    IF Falsy(response.data) \/ ~IsArray(response.data)
    THEN Returned(FALSE, << >>,
                  << <<"[Validation Error] Response data is not an array">> >>)
    ELSE IF Len(response.data.items) = 0
    THEN Returned(TRUE, << >>, << >>)
    ELSE ValidateItems(response.data.items, validator, validatorArgs, 0, << >>)

ArrayDataValues ==
    {Undefined, Null, Str(<< >>), Str(<<"[", "]">>), Num(0), JsObject}
        \cup {ArrayOf(items) : items \in SeqsUpTo(Items, MaxItems)}

ArrayEnvelopes ==
    {[data |-> d, error |-> Undefined, status |-> 200,
      headers |-> [t |-> "object", map |-> FromEntries(<< >>)]] : d \in ArrayDataValues}
    \cup {[data |-> Undefined, error |-> JsObject, status |-> 404,
           headers |-> [t |-> "object", map |-> FromEntries(<< >>)]]}

\* Elements of the arrays handed to the entity validators: two well-formed
\* ones with different foreign keys, one that breaks a business rule, one that
\* lacks a field, and null.
CommentItems ==
    {ObjectOf([id |-> Num(1), postId |-> Num(k), name |-> Str(<<"a">>),
               email |-> Str(e), body |-> b]) :
        k \in {1, 2}, e \in {<<"a", "@", "a", ".", "a">>}, b \in {Str(<<"a">>)}}
    \cup {ObjectOf([id |-> Num(1), postId |-> Num(1), name |-> Str(<<"a">>),
                    email |-> Str(<<"a", "@", "a">>), body |-> Str(<<"a">>)]),
          ObjectOf([id |-> Num(1), postId |-> Num(1), name |-> Str(<<"a">>),
                    email |-> Str(<<"a", "@", "a", ".", "a">>), body |-> Undefined]),
          Null}
PhotoItems ==
    {ObjectOf([id |-> Num(1), albumId |-> Num(k), title |-> t, url |-> Str(u),
               thumbnailUrl |-> Str(UrlHttp)]) :
        k \in {1, 2}, t \in {Str(<<"a">>)}, u \in {UrlHttp}}
    \cup {ObjectOf([id |-> Num(1), albumId |-> Num(1), title |-> Str(<<"a">>),
                    url |-> Str(UrlFtp), thumbnailUrl |-> Str(UrlHttp)]),
          ObjectOf([id |-> Num(1), albumId |-> Num(1), title |-> Undefined,
                    url |-> Str(UrlHttp), thumbnailUrl |-> Str(UrlHttp)]),
          Null}
AlbumItems ==
    {ObjectOf([id |-> Num(1), userId |-> Num(k), title |-> t]) :
        k \in {1, 2}, t \in {Str(<<"a">>)}}
    \cup {ObjectOf([id |-> Num(1), userId |-> Num(1), title |-> Str(<<" ">>)]),
          ObjectOf([id |-> Num(1), userId |-> Num(1), title |-> Undefined]),
          Null}
TodoItems ==
    {ObjectOf([id |-> Num(1), userId |-> Num(k), title |-> t, completed |-> Bool(FALSE)]) :
        k \in {1, 2}, t \in {Str(<<"a">>)}}
    \cup {ObjectOf([id |-> Num(1), userId |-> Num(1), title |-> Str(<<" ">>),
                    completed |-> Bool(TRUE)]),
          ObjectOf([id |-> Num(1), userId |-> Num(1), title |-> Str(<<"a">>),
                    completed |-> Undefined]),
          Null}
PostItems ==
    {ObjectOf([id |-> Num(1), userId |-> Num(k), title |-> t, body |-> Str(<<"a">>)]) :
        k \in {1, 2}, t \in {Str(<<"a">>)}}
    \cup {ObjectOf([id |-> Num(1), userId |-> Num(1), title |-> Str(<<"a">>),
                    body |-> Str(<< >>)]),
          ObjectOf([id |-> Num(1), userId |-> Num(1), title |-> Str(<<"a">>),
                    body |-> Undefined]),
          Null}

EntityItems(validator) ==
    IF validator = "validateCommentObject" THEN CommentItems
    ELSE IF validator = "validatePhoto" THEN PhotoItems
    ELSE IF validator = "validateAlbum" THEN AlbumItems
    ELSE IF validator = "validateTodo" THEN TodoItems
    ELSE PostItems

\* A 200 envelope around an array.
ArrayEnvelope(items) ==
    [data |-> ArrayOf(items), error |-> Undefined, status |-> 200,
     headers |-> [t |-> "object", map |-> FromEntries(<< >>)]]

ValidateArrayResponseCalls ==
    [fn : {"validateArrayResponse"}, response : ArrayEnvelopes,
     validator : ItemPredicates, args : ForwardedArgs]
    \cup UNION {[fn : {"validateArrayResponse"},
                 response : {ArrayEnvelope(items) :
                                items \in SeqsUpTo(EntityItems(v), MaxItems)},
                 validator : {v}, args : ExpectedKeyArgs] : v \in EntityPredicates}

\* A test calls ResponseValidator.validateArrayResponse(response, validator, ...args).
CallValidateArrayResponse ==
    /\ vcall.fn = "validateArrayResponse"
    /\ vret = None
    /\ vret' = ValidateArrayResponse(vcall.response, vcall.validator, vcall.args)
    /\ UNCHANGED <<clientVars, vcall>>

-----------------------------------------------------------------------------
(* The validators, each applied once to arguments drawn from bounded sets *)

ValidateApiResponseCalls ==
    [fn : {"validateApiResponse"}, response : Envelopes, args : ExpectedStatusArgs]

ValidatorCalls ==
    ValidateApiResponseCalls \cup ValidateArrayResponseCalls
        \cup ValidateEmailFormatCalls \cup ValidateUrlFormatCalls
        \cup AssertResponseTimeCalls \cup ShapeGuardCalls
        \cup EntityValidatorCalls

InitValidator ==
    /\ clock = 0
    /\ server = HealthyResponse
    /\ op = NoOp
    /\ reqs = << >>
    /\ transportGets = 0
    /\ allPromise = None
    /\ outcome = [state |-> "idle"]
    /\ prevGet = None
    /\ vcall \in ValidatorCalls
    /\ vret = None

NextValidator ==
    \/ CallValidateApiResponse
    \/ CallValidateArrayResponse
    \/ CallValidateEmailFormat
    \/ CallValidateUrlFormat
    \/ CallAssertResponseTime
    \/ CallIsComment
    \/ CallIsPhoto
    \/ CallIsAlbum
    \/ CallIsTodo
    \/ CallIsPost
    \/ CallValidateCommentObject
    \/ CallValidatePhoto
    \/ CallValidateAlbum
    \/ CallValidateTodo
    \/ CallValidatePost

SpecValidator == InitValidator /\ [][NextValidator]_vars

-----------------------------------------------------------------------------
(* The mock server (docker/fake-api/server.js) answering one GET of the client *)

Digits == {"0", "1", "2", "3", "4", "5", "6", "7", "8", "9"}
DigitValue(c) == CHOOSE n \in 0..9 : ToString(n) = c

NaN == [t |-> "number", nan |-> TRUE]

\* isNaN(v)
IsNaN(v) == v = NaN

\* parseInt(chars, 10), for path segments (no sign, no leading whitespace): the
\* number written by the leading digits, NaN when there is none.
RECURSIVE ParseDigits(_, _, _)
ParseDigits(chars, i, acc) ==
    IF i > Len(chars) \/ chars[i] \notin Digits THEN acc
    ELSE ParseDigits(chars, i + 1, 10 * acc + DigitValue(chars[i]))

ParseInt(chars) ==
    IF chars = << >> \/ chars[1] \notin Digits THEN NaN
    ELSE Num(ParseDigits(chars, 1, 0))

\* a === b
StrictEquals(a, b) == ~IsNaN(a) /\ ~IsNaN(b) /\ a = b

\* The text of a path segment.
RECURSIVE Concat(_)
Concat(chars) == IF chars = << >> THEN "" ELSE Head(chars) \o Concat(Tail(chars))

InvalidId == <<"i", "n", "v", "a", "l", "i", "d">>

\* The :postId, :albumId, :userId segments of the requests.
PathIds ==
    { <<"1">>, <<"2">>, <<"9", "9", "9">>, InvalidId, <<"1", "a", "b", "c">>,
      <<"a", "b", "c">> }

\* What is on disk under data/<file>: the records, an empty array, no file,
\* text that is not JSON, a JSON object, an array with a null element.
DataFiles == {"records", "empty", "missing", "garbled", "object", "nullElement"}

FixtureRecord(field, key) == ObjectOf([f \in {"id", field} |-> Num(key)])

\* fs.readFileSync(filePath, "utf8") followed by JSON.parse(data).
ReadAndParse(file, field) ==
    IF file \in {"missing", "garbled"} THEN [ok |-> FALSE, value |-> Undefined]
    ELSE IF file = "empty" THEN [ok |-> TRUE, value |-> ArrayOf(<< >>)]
    ELSE IF file = "object" THEN [ok |-> TRUE, value |-> ObjectOf([f \in {} |-> Undefined])]
    ELSE LET records == [i \in DOMAIN FixtureKeys |-> FixtureRecord(field, FixtureKeys[i])]
         IN [ok |-> TRUE,
             value |-> ArrayOf(IF file = "nullElement" THEN <<Null>> \o records
                               ELSE records)]

\* loadMockData(filename): the catch returns [].
LoadMockData(file, field) ==
    IF ReadAndParse(file, field).ok THEN ReadAndParse(file, field).value
    ELSE ArrayOf(<< >>)

\* data.filter(x => x[field] === key) throws: data has no filter method, or an
\* element is null.
FilterThrows(data, field) ==
    \/ data.t /= "array"
    \/ \E i \in DOMAIN data.items : data.items[i].t \in {"null", "undefined"}

\* data.filter(x => x[field] === key)
Filter(data, field, key) ==
    SelectSeq(data.items, LAMBDA x : StrictEquals(Get(x, field), key))

\* res.status(status).json(...)
MockResponse(status, body) ==
    [status |-> status, body |-> body,
     headersArray |-> << [name |-> "content-type",
                          value |-> "application/json; charset=utf-8"] >>]

\* The global error handler.
ErrorHandler == MockResponse(500, ErrorBody(InternalServerError))

\* app.get(route, handler): handler's response, or the error handler's when the
\* handler throws.  Only the comments route checks the id before loading.
RouteHandler(route, id, file) ==
    LET key == ParseInt(id)
        data == LoadMockData(file, route.field)
        kept == Filter(data, route.field, key)
    IN IF route.suffix = "/comments" /\ (IsNaN(key) \/ id = InvalidId)
       THEN MockResponse(404, ErrorBody(InvalidIdError))
       ELSE IF FilterThrows(data, route.field) THEN ErrorHandler
       ELSE IF Len(kept) = 0 THEN MockResponse(404, ErrorBody(route.notFound))
       ELSE MockResponse(200, ArrayBody(route.field,
                                        [i \in DOMAIN kept |-> kept[i].fields[route.field].n]))

\* What went wrong inside the server while it served the request.
InternalFailure(route, id, file) ==
    LET key == ParseInt(id)
        loaded == ~(route.suffix = "/comments" /\ (IsNaN(key) \/ id = InvalidId))
    IN [loadFailed |-> loaded /\ ~ReadAndParse(file, route.field).ok,
        handlerThrew |-> loaded /\ FilterThrows(LoadMockData(file, route.field),
                                                route.field)]

RoutePath(route, id) == route.prefix \o Concat(id) \o route.suffix

MockRequests ==
    [fn : {"GET"}, route : Routes, id : PathIds, file : DataFiles,
     options : {NoOptions, [expectedStatus |-> 404]}]

\* The server handles the GET and sends its response.
MockServerAnswers ==
    /\ vcall.fn = "GET"
    /\ vret = None
    /\ server' = RouteHandler(vcall.route, vcall.id, vcall.file)
    /\ vret' = InternalFailure(vcall.route, vcall.id, vcall.file)
    /\ UNCHANGED <<clock, op, reqs, transportGets, allPromise, outcome, prevGet, vcall>>

\* The response reaches the client: get() runs to its end.
ClientReceives ==
    /\ vret /= None
    /\ TransportResponds(1)

\* A test has called apiClient.get(path, options); the request is at the server.
InitMockServer ==
    /\ vcall \in MockRequests
    /\ vret = None
    /\ clock = 0
    /\ server = None
    /\ op = [NoOp EXCEPT !.kind = "get",
                         !.endpoint = RoutePath(vcall.route, vcall.id),
                         !.options = vcall.options]
    /\ reqs = << NewGet(RoutePath(vcall.route, vcall.id), vcall.options, 0) >>
    /\ transportGets = 1
    /\ allPromise = None
    /\ outcome = Pending
    /\ prevGet = None

NextMockServer ==
    \/ MockServerAnswers
    \/ ClientReceives

SpecMockServer == InitMockServer /\ [][NextMockServer]_vars

-----------------------------------------------------------------------------
(* Properties *)

Carries(message, token) == \E k \in DOMAIN message : message[k] = token

LogCarries(log, token) == \E l \in DOMAIN log : Carries(log[l], token)

AnsweredJson(r) ==
    r.transport.t = "response" /\ r.transport.response.body \in JsonBodies

AnsweredNonJson(r) ==
    r.transport.t = "response" /\ r.transport.response.body \in NonJsonBodies

TransportFailed(r) == r.transport.t = "error"

Finished == op.kind /= "none" /\ outcome.state /= "pending"

\* C1: every envelope get() returns has data set and error undefined when the
\* HTTP status is in [200,300), error set and data undefined for every other
\* status; status and headers are populated in both cases.
C1_EnvelopeOneOfDataError ==
    \A i \in DOMAIN reqs :
        reqs[i].state = "resolved" =>
            LET e == reqs[i].envelope
                response == reqs[i].transport.response
            IN /\ response.status \in 200..299 =>
                    e.data /= Undefined /\ e.error = Undefined
               /\ response.status \notin 200..299 =>
                    e.error /= Undefined /\ e.data = Undefined
               /\ e.status = response.status
               /\ e.headers.t = "object"
               /\ \A k \in DOMAIN response.headersArray :
                    /\ response.headersArray[k].name \in DOMAIN e.headers.map
                    /\ e.headers.map[response.headersArray[k].name]
                         = response.headersArray[k].value

C1_Witness ==
    \E i \in DOMAIN reqs :
        /\ reqs[i].state = "resolved"
        /\ reqs[i].transport.response.status = 300
        /\ reqs[i].transport.response.headersArray /= << >>
        /\ reqs[i].envelope.error /= Undefined

\* C2: for the same server response, two get() calls that differ only in the
\* caller's expectedStatus return identical envelopes.
C2_ExpectedStatusDoesNotShapeEnvelope ==
    ( /\ op.kind = "get"
      /\ reqs[1].state = "resolved"
      /\ prevGet /= None
      /\ prevGet.response = server )
    => reqs[1].envelope = prevGet.envelope

C2_Witness ==
    /\ op.kind = "get"
    /\ reqs[1].state = "resolved"
    /\ prevGet /= None
    /\ prevGet.response = server
    /\ server.status = 404
    /\ prevGet.expectedStatus = 404
    /\ reqs[1].expectedStatus = 200

\* C3: get() resolves with an envelope for every HTTP status whose body parses
\* as JSON, whatever the status and whatever expectedStatus is.
C3_JsonBodyAlwaysResolves ==
    \A i \in DOMAIN reqs :
        AnsweredJson(reqs[i]) =>
            /\ reqs[i].state = "resolved"
            /\ reqs[i].envelope /= None
            /\ op.kind = "get" => outcome = Resolved(reqs[i].envelope)

C3_Witness ==
    /\ op.kind = "get"
    /\ AnsweredJson(reqs[1])
    /\ reqs[1].transport.response.status = 404
    /\ reqs[1].expectedStatus = 200
    /\ outcome.state = "resolved"

\* C4: when the response body is not valid JSON, get() rejects, returns no
\* envelope, and the failure differs from every failure it signals for a
\* transport-level error.
C4_ParseFailureRejectsDistinctly ==
    \A i \in DOMAIN reqs :
        AnsweredNonJson(reqs[i]) =>
            /\ reqs[i].state = "rejected"
            /\ reqs[i].envelope = None
            /\ op.kind = "get" => outcome = Rejected(reqs[i].failure)
            /\ Carries(reqs[i].failure.message, "Invalid JSON response from")
            /\ \A m \in TransportErrors, t \in 0..MaxClock :
                 LET other == GetAfterTransportError(reqs[i], TransportFailure(m), t)
                 IN /\ other.failure /= reqs[i].failure
                    /\ ~Carries(other.failure.message, "Invalid JSON response from")

C4_Witness ==
    /\ op.kind = "get"
    /\ AnsweredNonJson(reqs[1])
    /\ reqs[1].transport.response.status = 200
    /\ outcome.state = "rejected"

\* C5 as stated: when the transport GET fails, get() rejects and the failure
\* delivered to the caller carries both the URL and the elapsed time.
C5_FailureCarriesUrlAndElapsed ==
    \A i \in DOMAIN reqs :
        TransportFailed(reqs[i]) =>
            /\ reqs[i].state = "rejected"
            /\ Carries(reqs[i].failure.message, reqs[i].url)
            /\ Carries(reqs[i].failure.message, ToString(reqs[i].responseTime))

\* C5 amended: when the transport GET fails, get() rejects and the failure
\* delivered to the caller carries the URL and the transport's message; the
\* elapsed time is written to the error log.
C5_FailureCarriesUrlLogCarriesElapsed ==
    \A i \in DOMAIN reqs :
        TransportFailed(reqs[i]) =>
            /\ reqs[i].state = "rejected"
            /\ reqs[i].envelope = None
            /\ op.kind = "get" => outcome = Rejected(reqs[i].failure)
            /\ Carries(reqs[i].failure.message, reqs[i].url)
            /\ \A k \in DOMAIN reqs[i].transport.error.message :
                 Carries(reqs[i].failure.message, reqs[i].transport.error.message[k])
            /\ LogCarries(reqs[i].errlog, ToString(reqs[i].responseTime))

C5_Witness ==
    /\ op.kind = "get"
    /\ TransportFailed(reqs[1])
    /\ reqs[1].responseTime = 1
    /\ outcome.state = "rejected"

\* C6: nothing is retried: a call of get(), validateResponseTime() or
\* healthCheck() issues exactly one transport GET in every outcome, and
\* concurrentRequests(endpoint, n) issues exactly n.
C6_NoRetry ==
    op.kind /= "none" =>
        /\ transportGets = IF op.kind = "concurrentRequests" THEN op.concurrency ELSE 1
        /\ Len(reqs) = transportGets

C6_Witness ==
    /\ op.kind = "concurrentRequests"
    /\ op.concurrency = MaxConcurrency
    /\ Finished
    /\ \E i \in DOMAIN reqs : TransportFailed(reqs[i])
    /\ \E i \in DOMAIN reqs : AnsweredNonJson(reqs[i])

\* C7: concurrentRequests(endpoint, n) resolves with exactly n envelopes, the
\* i-th of request i, when all n GETs succeed (all with status 200 when the
\* peer answers 200), and rejects as a whole, with no list, when any GET failed
\* at the transport level.
C7_AllOrNothing ==
    (op.kind = "concurrentRequests" /\ Finished) =>
        /\ outcome.state = "resolved" =>
             /\ Len(outcome.value) = op.concurrency
             /\ \A i \in 1..op.concurrency :
                  /\ reqs[i].state = "resolved"
                  /\ outcome.value[i] = reqs[i].envelope
                  /\ reqs[i].transport.response.status = 200
                         => outcome.value[i].status = 200
        /\ (\A i \in DOMAIN reqs : reqs[i].state = "resolved") =>
             outcome.state = "resolved"
        /\ (\E i \in DOMAIN reqs : TransportFailed(reqs[i])) =>
             /\ outcome.state = "rejected"
             /\ \E i \in DOMAIN reqs : outcome = Rejected(reqs[i].failure)

C7_Witness ==
    /\ op.kind = "concurrentRequests"
    /\ op.concurrency = MaxConcurrency
    /\ Finished
    /\ TransportFailed(reqs[MaxConcurrency])
    /\ \A i \in 1..(MaxConcurrency - 1) : reqs[i].state = "resolved"
    /\ outcome.state = "rejected"

\* C8: healthCheck() never rejects: it issues a GET to /health and returns a
\* boolean, false whenever the underlying get() failed.
C8_HealthCheckNeverRejects ==
    op.kind = "healthCheck" =>
        /\ Len(reqs) = 1
        /\ reqs[1].url = BaseUrl \o "/health"
        /\ Finished =>
             /\ outcome.state = "resolved"
             /\ outcome.value \in BOOLEAN
             /\ reqs[1].state = "rejected" => outcome.value = FALSE

C8_Witness ==
    /\ op.kind = "healthCheck"
    /\ Finished
    /\ TransportFailed(reqs[1])
    /\ outcome = Resolved(FALSE)

\* C9: validateResponseTime(endpoint, maxMs) performs one GET and then returns
\* the elapsed time when elapsed <= maxMs, raises an assertion failure when
\* elapsed > maxMs, and propagates get()'s failure unchanged when the GET fails;
\* a returned value is <= maxMs.
C9_ValidateResponseTime ==
    (op.kind = "validateResponseTime" /\ Finished) =>
        LET elapsed == clock - op.startTime IN
        /\ transportGets = 1
        /\ (reqs[1].state = "resolved" /\ elapsed <= op.maxResponseTime) =>
             outcome = Resolved(elapsed)
        /\ (reqs[1].state = "resolved" /\ elapsed > op.maxResponseTime) =>
             /\ outcome.state = "rejected"
             /\ Carries(outcome.error.message,
                        "expect(received).toBeLessThanOrEqual(expected)")
        /\ reqs[1].state = "rejected" => outcome = Rejected(reqs[1].failure)
        /\ outcome.state = "resolved" => outcome.value <= op.maxResponseTime

C9_Witness ==
    /\ op.kind = "validateResponseTime"
    /\ Finished
    /\ reqs[1].state = "resolved"
    /\ clock - op.startTime = 1
    /\ op.maxResponseTime = 1
    /\ outcome = Resolved(1)

\* C10 as stated: validateApiResponse(response, expected) completes without
\* throwing exactly when status equals expected, headers are present and a
\* mapping, and data is defined and error undefined (expected = 200) or error
\* is defined and data undefined (any other expected code).
IsMapping(v) == v.t = "object"

C10_CompletesExactlyWhenWellFormed ==
    (vcall /= None /\ vret /= None) =>
        LET r == vcall.response
            expected == IF "expectedStatus" \in DOMAIN vcall.args
                        THEN vcall.args.expectedStatus ELSE 200
        IN (~vret.threw) <=>
             /\ r.status = expected
             /\ IsMapping(r.headers)
             /\ IF expected = 200
                THEN r.data /= Undefined /\ r.error = Undefined
                ELSE r.error /= Undefined /\ r.data = Undefined

-----------------------------------------------------------------------------
(* Properties of ResponseValidator.validateArrayResponse *)

ArrayCallDone == vcall /= None /\ vcall.fn = "validateArrayResponse" /\ vret /= None

\* C11: given an envelope whose data is the empty array, validateArrayResponse
\* returns true for every item predicate and never invokes the predicate.
C11_EmptyArrayVacuouslyValid ==
    (ArrayCallDone /\ vcall.response.data = ArrayOf(<< >>)) =>
        /\ ~vret.threw
        /\ vret.value = TRUE
        /\ vret.calls = << >>

C11_Witness ==
    /\ ArrayCallDone
    /\ vcall.response.data = ArrayOf(<< >>)
    /\ vcall.validator = "keyEquals"
    /\ vcall.args = << >>
    /\ vret.value = TRUE

\* C12: given a non-empty array, the item predicate is applied, with the
\* forwarded arguments, to the elements in index order; the result is true iff
\* every element passes, and when k is the first failing index the result is
\* false, index k is reported, and the predicate was invoked exactly on 0..k.
C12_InOrderShortCircuit ==
    (ArrayCallDone /\ IsArray(vcall.response.data)
                   /\ vcall.response.data.items /= << >>
                   /\ \A k \in DOMAIN vcall.response.data.items :
                          ~ValidatorThrows(vcall.validator,
                                           vcall.response.data.items[k], vcall.args)) =>
        LET items == vcall.response.data.items
            Passes(k) == ApplyValidator(vcall.validator, items[k + 1], vcall.args)
            failing == {k \in 0..(Len(items) - 1) : ~Passes(k)}
            last == IF failing = {} THEN Len(items) - 1
                    ELSE CHOOSE k \in failing : \A j \in failing : k <= j
        IN /\ ~vret.threw
           /\ vret.value = (failing = {})
           /\ Len(vret.calls) = last + 1
           /\ \A c \in DOMAIN vret.calls :
                /\ vret.calls[c].index = c - 1
                /\ vret.calls[c].item = items[c]
                /\ vret.calls[c].args = vcall.args
           /\ failing /= {} =>
                /\ Len(vret.errors) = 1
                /\ vret.errors[1] = <<"[Validation Error] Item at index", ToString(last),
                                      "failed validation:">>
           /\ failing = {} => vret.errors = << >>

C12_Witness ==
    /\ ArrayCallDone
    /\ IsArray(vcall.response.data)
    /\ Len(vcall.response.data.items) = MaxItems
    /\ vcall.validator = "keyEquals"
    /\ vcall.args = <<1>>
    /\ vcall.response.data.items[1].key = 1
    /\ vcall.response.data.items[2].key = 2
    /\ vcall.response.data.items[3].key = 2
    /\ Len(vret.calls) = 2
    /\ vret.value = FALSE

\* C13: validateArrayResponse returns false at once, without invoking the item
\* predicate, whenever the envelope's data is missing or is not an array.
C13_MissingOrNonArrayData ==
    (ArrayCallDone /\ vcall.response.data.t /= "array") =>
        /\ ~vret.threw
        /\ vret.value = FALSE
        /\ vret.calls = << >>

C13_Witness ==
    /\ ArrayCallDone
    /\ vcall.response.data = Undefined
    /\ vcall.response.status = 404
    /\ vcall.validator = "itemOk"
    /\ vret.value = FALSE


-----------------------------------------------------------------------------
(* Properties of the shape guards and the entity validators *)

Validators ==
    [validateCommentObject |-> "Comment", validatePhoto |-> "Photo",
     validateAlbum |-> "Album", validateTodo |-> "Todo", validatePost |-> "Post"]

Guards ==
    [isComment |-> "Comment", isPhoto |-> "Photo", isAlbum |-> "Album",
     isTodo |-> "Todo", isPost |-> "Post"]

Interface(entity) ==
    IF entity = "Comment" THEN CommentInterface
    ELSE IF entity = "Photo" THEN PhotoInterface
    ELSE IF entity = "Album" THEN AlbumInterface
    ELSE IF entity = "Todo" THEN TodoInterface
    ELSE PostInterface

ShapeGuard(entity, obj) ==
    IF entity = "Comment" THEN IsComment(obj)
    ELSE IF entity = "Photo" THEN IsPhoto(obj)
    ELSE IF entity = "Album" THEN IsAlbum(obj)
    ELSE IF entity = "Todo" THEN IsTodo(obj)
    ELSE IsPost(obj)

EntityValidator(entity, obj, args) ==
    IF entity = "Comment" THEN ValidateCommentObject(obj, args)
    ELSE IF entity = "Photo" THEN ValidatePhoto(ResponseValidatorClass, obj, args)
    ELSE IF entity = "Album" THEN ValidateAlbum(obj, args)
    ELSE IF entity = "Todo" THEN ValidateTodo(obj, args)
    ELSE ValidatePost(obj, args)

\* The reference field of each entity.
ForeignKey(entity) ==
    IF entity = "Comment" THEN "postId"
    ELSE IF entity = "Photo" THEN "albumId"
    ELSE "userId"

\* The text fields each validator wants non-empty, and the formatted fields.
CheckedTextFields(entity) ==
    IF entity = "Comment" THEN {"name", "email", "body"}
    ELSE IF entity = "Photo" THEN {}
    ELSE IF entity = "Post" THEN {"title", "body"}
    ELSE {"title"}
EmailFields(entity) == IF entity = "Comment" THEN {"email"} ELSE {}
UrlFields(entity) == IF entity = "Photo" THEN {"url", "thumbnailUrl"} ELSE {}

\* An entity validator has been applied; a shape guard has been applied.
EntityCallDone ==
    vcall /= None /\ vcall.fn \in DOMAIN Validators /\ vret /= None
GuardCallDone ==
    vcall /= None /\ vcall.fn \in DOMAIN Guards /\ vret /= None

\* The object passes its guard and every business rule of its validator.
ValidEntity(entity, obj, args) ==
    /\ ShapeGuard(entity, obj)
    /\ \A f \in CheckedTextFields(entity) : Len(Trim(Get(obj, f).s)) > 0
    /\ \A f \in EmailFields(entity) : RegexTest("simple", Get(obj, f).s, 1, {0})
    /\ \A f \in UrlFields(entity) :
           /\ NewURL(Get(obj, f).s).ok
           /\ NewURL(Get(obj, f).s).protocol
                  \in {<<"h", "t", "t", "p", ":">>, <<"h", "t", "t", "p", "s", ":">>}
    /\ (Len(args) = 0 \/ Get(obj, ForeignKey(entity)) = Num(args[1]))

\* C14: an object that passes its entity's shape guard, has non-empty checked
\* text fields, well-formed email and URL fields and the expected foreign key
\* (or none expected) is accepted by the entity's validator, whatever the
\* numbers in id and in the foreign key.
C14_ValidEntityAccepted ==
    (EntityCallDone /\ ValidEntity(Validators[vcall.fn], vcall.obj, vcall.args))
        => (~vret.threw /\ vret.value = TRUE)

\* The same, but for comments whose id or postId is 0.
C14_ValidEntityAcceptedUnlessZeroKeyComment ==
    (/\ EntityCallDone
     /\ ValidEntity(Validators[vcall.fn], vcall.obj, vcall.args)
     /\ ~(/\ vcall.fn = "validateCommentObject"
          /\ Num(0) \in {Get(vcall.obj, "id"), Get(vcall.obj, "postId")}))
        => (~vret.threw /\ vret.value = TRUE)

\* C15: for an object that lacks a required field or carries it with the wrong
\* primitive type, the shape guard is false and the entity validator returns
\* false.
C15_MalformedEntityRejected ==
    (/\ EntityCallDone
     /\ TypeOf(vcall.obj) = "object"
     /\ vcall.obj /= Null
     /\ \E f \in DOMAIN Interface(Validators[vcall.fn]) :
            TypeOf(Get(vcall.obj, f)) /= Interface(Validators[vcall.fn])[f])
        => (/\ ~ShapeGuard(Validators[vcall.fn], vcall.obj)
            /\ ~vret.threw
            /\ vret.value = FALSE)

\* validateTodo has rejected a todo whose only fault is a string in completed.
C15_Witness ==
    /\ EntityCallDone
    /\ vcall.fn = "validateTodo"
    /\ vcall.obj = ObjectOf([id |-> Num(1), userId |-> Num(1),
                             title |-> Str(<<"a">>), completed |-> Str(<<"a">>)])
    /\ vcall.args = <<1>>
    /\ vret.value = FALSE

\* C16: a shape guard returns true exactly for a non-null object that carries
\* every required field of the entity with its primitive type; for anything
\* else, null, undefined and primitives included, it returns false and does not
\* throw; emptiness and format of the fields play no part.
C16_ShapeGuardIsStructural ==
    GuardCallDone
        => (/\ ~vret.threw
            /\ vret.value =
                   (/\ vcall.obj.t = "object"
                    /\ \A f \in DOMAIN Interface(Guards[vcall.fn]) :
                           TypeOf(Get(vcall.obj, f)) = Interface(Guards[vcall.fn])[f]))

\* isComment has accepted a comment with an empty name and a malformed email.
C16_Witness ==
    /\ GuardCallDone
    /\ vcall.fn = "isComment"
    /\ vcall.obj = ObjectOf([id |-> Num(0), postId |-> Num(1), name |-> Str(<< >>),
                             email |-> Str(<<"a", "@", "a">>),
                             body |-> Str(<<" ">>)])
    /\ vret.value = TRUE

\* C17: with an expected foreign key supplied and a different reference field
\* the validator returns false; with none supplied the result is the same for
\* every number in the reference field.
C17_ForeignKeyMismatchFails ==
    (EntityCallDone /\ ShapeGuard(Validators[vcall.fn], vcall.obj))
        => /\ (/\ Len(vcall.args) >= 1
               /\ Get(vcall.obj, ForeignKey(Validators[vcall.fn])) /= Num(vcall.args[1]))
                  => (~vret.threw /\ vret.value = FALSE)
           /\ Len(vcall.args) = 0
                  => \A n \in {0, 1, 2} :
                         EntityValidator(
                             Validators[vcall.fn],
                             ObjectOf([vcall.obj.fields EXCEPT
                                         ![ForeignKey(Validators[vcall.fn])] = Num(n)]),
                             vcall.args) = vret

\* The same for the four validators that take an expected foreign key.
C17_ForeignKeyMismatchFailsButComment ==
    vcall /= None /\ vcall.fn /= "validateCommentObject"
        => C17_ForeignKeyMismatchFails


-----------------------------------------------------------------------------
(* Properties of validateEmailFormat, validateUrlFormat, assertResponseTime *)

EmailCallDone ==
    vcall /= None /\ vcall.fn = "validateEmailFormat" /\ vret /= None

\* chars matches ^[^\s@]+@[^\s@]+\.[^\s@]+$: an "@" at i and a "." at j split
\* it into three non-empty parts free of whitespace and "@".
MatchesSimplePattern(chars) ==
    \E i \in DOMAIN chars : \E j \in DOMAIN chars :
        /\ 1 < i /\ i + 1 < j /\ j < Len(chars)
        /\ chars[i] = "@"
        /\ chars[j] = "."
        /\ \A k \in DOMAIN chars : k /= i => chars[k] \notin {" ", "@"}

\* C18: validateEmailFormat, as the runtime resolves the two declarations of
\* that name, returns true exactly for the strings that match
\* ^[^\s@]+@[^\s@]+\.[^\s@]+$; "a@b.co" is accepted, "not-an-email" and "a@b"
\* are not.
C18_EmailMatchesSimplePattern ==
    EmailCallDone
        => /\ ~vret.threw
           /\ vret.value = MatchesSimplePattern(vcall.email)
           /\ vcall.email = <<"a", "@", "b", ".", "c", "o">> => vret.value = TRUE
           /\ vcall.email = <<"a", "@", "b">> => vret.value = FALSE
           /\ vcall.email
                  = <<"n", "o", "t", "-", "a", "n", "-", "e", "m", "a", "i", "l">>
                  => vret.value = FALSE

\* "a@b", which only the first declaration's pattern matches, has been rejected.
C18_Witness ==
    /\ EmailCallDone
    /\ vcall.email = <<"a", "@", "b">>
    /\ RegexTest(ValidateEmailFormatDeclarations[1], vcall.email, 1, {0})
    /\ vret.value = FALSE

UrlCallDone ==
    vcall /= None /\ vcall.fn = "validateUrlFormat" /\ vret /= None

\* C19: validateUrlFormat returns true exactly when the string parses as a
\* URL with scheme http or https; a string that does not parse and a URL with
\* another scheme both give false, and nothing is thrown.
C19_UrlHttpOrHttpsOnly ==
    UrlCallDone
        => /\ ~vret.threw
           /\ vret.value =
                  (/\ NewURL(vcall.url).ok
                   /\ NewURL(vcall.url).protocol
                          \in {<<"h", "t", "t", "p", ":">>,
                               <<"h", "t", "t", "p", "s", ":">>})
           /\ vret.value = (vcall.url \in {UrlHttp, UrlHttps, UrlHttpUpper})

\* An ftp URL, which parses, has been rejected without a throw.
C19_Witness ==
    /\ UrlCallDone
    /\ vcall.url = UrlFtp
    /\ NewURL(vcall.url).ok
    /\ ~vret.threw
    /\ vret.value = FALSE

ResponseTimeCallDone ==
    vcall /= None /\ vcall.fn = "assertResponseTime" /\ vret /= None

\* C20: assertResponseTime(actual, max) fails its assertion exactly when
\* actual > max and returns otherwise, actual = max included; without max the
\* ceiling is 2000.
C20_AssertsExactlyAboveCeiling ==
    ResponseTimeCallDone
        => /\ "maxTime" \in DOMAIN vcall.args
                  => vret.threw = (vcall.actualTime > vcall.args.maxTime)
           /\ "maxTime" \notin DOMAIN vcall.args
                  => vret.threw = (vcall.actualTime > 2000)

\* A response time equal to the default ceiling has passed.
C20_Witness ==
    /\ ResponseTimeCallDone
    /\ vcall.actualTime = 2000
    /\ vcall.args = NoOptions
    /\ ~vret.threw


-----------------------------------------------------------------------------
(* Properties of the boolean validators taken together *)

BooleanValidators ==
    {"validateCommentObject", "validatePhoto", "validateAlbum", "validateTodo",
     "validatePost", "validateEmailFormat", "validateUrlFormat",
     "validateArrayResponse"}

BooleanValidatorDone ==
    vcall /= None /\ vcall.fn \in BooleanValidators /\ vret /= None

\* C21: each boolean validator, whatever it is given (null, undefined,
\* primitives, objects lacking fields), and validateArrayResponse with any
\* entity validator as item predicate, ends by returning true or false: none
\* throws.
C21_BooleanValidatorsNeverThrow ==
    BooleanValidatorDone => (~vret.threw /\ vret.value \in BOOLEAN)

\* The calls that do throw: validateCommentObject on null or undefined, alone
\* or as item predicate, and validatePhoto detached from its class on an
\* element that passes isPhoto.
C21_ThrowsOnlyOnNullCommentOrDetachedPhoto ==
    (BooleanValidatorDone /\ vret.threw)
        => \/ /\ vcall.fn = "validateCommentObject"
              /\ vcall.obj \in {Null, Undefined}
           \/ /\ vcall.fn = "validateArrayResponse"
              /\ vcall.validator = "validateCommentObject"
              /\ \E k \in DOMAIN vcall.response.data.items :
                     vcall.response.data.items[k] = Null
           \/ /\ vcall.fn = "validateArrayResponse"
              /\ vcall.validator = "validatePhoto"
              /\ \E k \in DOMAIN vcall.response.data.items :
                     IsPhoto(vcall.response.data.items[k])

\* An entity validator was the item predicate of validateArrayResponse.
EntityArrayCallDone ==
    ArrayCallDone /\ vcall.validator \in EntityPredicates

\* C28: with an entity validator passed as the method itself,
\* validateArrayResponse returns true exactly when data is an array whose every
\* element passes that validator called directly with the same expected key,
\* false otherwise, and does not throw.
C28_EntityValidatorAsItemPredicate ==
    EntityArrayCallDone
        => /\ ~vret.threw
           /\ vret.value =
                  (/\ IsArray(vcall.response.data)
                   /\ \A k \in DOMAIN vcall.response.data.items :
                          LET direct == EntityValidator(Validators[vcall.validator],
                                                        vcall.response.data.items[k],
                                                        vcall.args)
                          IN ~direct.threw /\ direct.value)

\* The same for the validators that read neither this nor a property of null.
C28_HoldsForAlbumTodoPost ==
    vcall /= None /\ vcall.fn = "validateArrayResponse"
        /\ vcall.validator \in {"validateAlbum", "validateTodo", "validatePost"}
        => C28_EntityValidatorAsItemPredicate


-----------------------------------------------------------------------------
(* Properties of the mock server *)

\* The client's get() has returned the envelope of the server's answer.
MockAnswered ==
    /\ vcall /= None /\ vcall.fn = "GET"
    /\ vret /= None
    /\ reqs[1].state /= "pending"

\* The segment is a decimal number, the way a path id is written.
IsNumericId(id) == id /= << >> /\ \A i \in DOMAIN id : id[i] \in Digits

\* The records of the route's data file that the id selects, when the file is
\* readable and holds an array of records.
MatchingRecords(id, file) ==
    IF file \in {"records"} /\ IsNumericId(id)
    THEN {i \in DOMAIN FixtureKeys : Num(FixtureKeys[i]) = ParseInt(id)}
    ELSE {}

NotFoundEnvelope ==
    /\ server.status = 404
    /\ server.body \in MockErrorBodies
    /\ reqs[1].state = "resolved"
    /\ reqs[1].envelope.error /= Undefined
    /\ reqs[1].envelope.data = Undefined
    /\ reqs[1].envelope.status = 404

\* C22: on each of the five resource routes, a GET whose id is not a number,
\* or whose id selects no record, is answered 404 with an error body, and the
\* client's envelope has error set, data undefined, status 404.
C22_NotFoundOnBadOrUnmatchedId ==
    (/\ MockAnswered
     /\ vcall.file \in {"records", "empty"}
     /\ (~IsNumericId(vcall.id) \/ MatchingRecords(vcall.id, vcall.file) = {}))
        => NotFoundEnvelope

\* The same, but for ids that begin with digits and go on with other characters.
C22_NotFoundUnlessDigitPrefix ==
    (/\ MockAnswered
     /\ vcall.file \in {"records", "empty"}
     /\ (~IsNumericId(vcall.id) \/ MatchingRecords(vcall.id, vcall.file) = {})
     /\ (IsNumericId(vcall.id) \/ IsNaN(ParseInt(vcall.id))))
        => NotFoundEnvelope

\* C23: when something fails inside the server while it serves a resource
\* route (the data file cannot be read or parsed, the handler throws), the
\* answer is 500 with an error body.
C23_InternalFailureAnswers500 ==
    (MockAnswered /\ (vret.loadFailed \/ vret.handlerThrew))
        => (server.status = 500 /\ server.body \in MockErrorBodies)

\* The same for the failures that escape the handler.
C23_ThrownFailureAnswers500 ==
    (MockAnswered /\ vret.handlerThrew)
        => (server.status = 500 /\ server.body \in MockErrorBodies)


-----------------------------------------------------------------------------
(* Properties of the request get() hands to the transport *)

\* The headers the caller of the running call supplied.
CallerHeaders ==
    IF "headers" \in DOMAIN op.options THEN op.options.headers ELSE NoOptions

\* Every request of the running call goes to base URL + endpoint, with the
\* caller's timeout or 10000, and carries every caller-supplied header.
SentToUrlWithTimeoutAndCallerHeaders ==
    \A i \in DOMAIN reqs :
        /\ reqs[i].url = BaseUrl \o op.endpoint
        /\ reqs[i].timeout = IF "timeout" \in DOMAIN op.options
                             THEN op.options.timeout ELSE 10000
        /\ \A k \in DOMAIN CallerHeaders :
               k \in DOMAIN reqs[i].headers /\ reqs[i].headers[k] = CallerHeaders[k]

\* C24 as stated: every GET carries Accept: application/json together with all
\* caller-supplied headers, whatever they are, and goes to base URL + endpoint
\* with the caller's timeout (10000 when omitted).
C24_AcceptJsonAndCallerHeaders ==
    /\ SentToUrlWithTimeoutAndCallerHeaders
    /\ \A i \in DOMAIN reqs :
           "Accept" \in DOMAIN reqs[i].headers
               /\ reqs[i].headers["Accept"] = "application/json"

\* C24, amended: every GET carries all caller-supplied headers, and Accept:
\* application/json unless the caller supplied an Accept header of its own;
\* it goes to base URL + endpoint with the caller's timeout (10000 when
\* omitted).
C24_CallerHeadersOverDefaultAccept ==
    /\ SentToUrlWithTimeoutAndCallerHeaders
    /\ \A i \in DOMAIN reqs :
           /\ DOMAIN reqs[i].headers = {"Accept"} \cup DOMAIN CallerHeaders
           /\ "Accept" \notin DOMAIN CallerHeaders
                  => reqs[i].headers["Accept"] = "application/json"

\* A get() with a caller-supplied header and timeout has issued its GET.
C24_Witness ==
    /\ op.kind = "get"
    /\ "X-Trace" \in DOMAIN CallerHeaders
    /\ op.options.timeout = 5000
    /\ Len(reqs) = 1
    /\ reqs[1].headers = [k \in {"Accept", "X-Trace"} |->
                             IF k = "Accept" THEN "application/json" ELSE "1"]
    /\ reqs[1].timeout = 5000


-----------------------------------------------------------------------------
(* Properties of concurrentRequests *)

Batch == op.kind = "concurrentRequests"

\* C25: concurrentRequests(endpoint, n) issues all n transport GETs before the
\* response of any of them is processed, for every n: there is no limit on
\* the number in flight.
C25_AllIssuedBeforeAnyProcessed ==
    Batch =>
        /\ Len(reqs) = op.concurrency
        /\ transportGets = op.concurrency
        /\ (\E i \in DOMAIN reqs : reqs[i].state /= "pending")
               => \A j \in DOMAIN reqs : reqs[j].startTime = op.startTime

\* The largest batch: one response has been processed, another request, issued
\* at the same time, is still in flight.
C25_Witness ==
    /\ Batch
    /\ op.concurrency = MaxConcurrency
    /\ transportGets = MaxConcurrency
    /\ reqs[1].state = "pending"
    /\ reqs[MaxConcurrency].state = "resolved"

\* What the transport alone can make of request r in the current state.
SettledByOwnTransport(r) ==
    {GetAfterResponse(r, server, clock)}
        \cup {GetAfterTransportError(r, TransportFailure(m), clock) : m \in TransportErrors}

\* C26: once a GET of the batch has failed and the batch has rejected, the
\* requests still in flight are not aborted: each stays in flight until its own
\* transport answers or fails it.
C26_NoCancellation ==
    [][\A i \in DOMAIN reqs :
          (/\ Batch
           /\ reqs[i].state = "pending"
           /\ \E j \in DOMAIN reqs : reqs[j].state = "rejected" \/ reqs'[j].state = "rejected")
              => (reqs'[i] = reqs[i] \/ reqs'[i] \in SettledByOwnTransport(reqs[i]))]_vars

\* The batch has rejected, and a request answered later has still resolved.
C26_Witness ==
    /\ Batch
    /\ outcome.state = "rejected"
    /\ \E i, j \in DOMAIN reqs :
           /\ reqs[i].state = "rejected"
           /\ reqs[j].state = "resolved"
           /\ reqs[j].responseTime > reqs[i].responseTime

\* C29: when concurrentRequests resolves, the i-th envelope of the list is the
\* envelope of the response to the i-th request initiated, in whatever order
\* the responses arrived.
C29_EnvelopesInRequestOrder ==
    (Batch /\ outcome.state = "resolved")
        => /\ Len(outcome.value) = op.concurrency
           /\ \A i \in DOMAIN reqs :
                  LET response == reqs[i].transport.response
                  IN outcome.value[i]
                         = ApiResponse(response.status, ResponseJson(response.body).value,
                                       response.headersArray)

\* The second request was answered first, with another answer than the first.
C29_Witness ==
    /\ Batch
    /\ outcome.state = "resolved"
    /\ Len(reqs) = 2
    /\ reqs[2].responseTime < reqs[1].responseTime
    /\ reqs[1].transport.response.status = 200
    /\ reqs[2].transport.response.status = 404
    /\ outcome.value[1].status = 200
    /\ outcome.value[2].status = 404


-----------------------------------------------------------------------------
(* Properties of the client together with validateApiResponse, and healthCheck *)

\* get(endpoint, {expectedStatus: s}) was answered with status s and its
\* envelope went through validateApiResponse(envelope, s).
ValidatedAsExpected ==
    /\ op.kind = "get"
    /\ vcall /= None /\ vret /= None
    /\ reqs[1].state = "resolved"
    /\ reqs[1].transport.response.status = reqs[1].expectedStatus
    /\ vcall.response = reqs[1].envelope
    /\ vcall.args = [expectedStatus |-> reqs[1].expectedStatus]

\* C27: for every status s and every JSON body, the envelope that
\* get(endpoint, {expectedStatus: s}) returns when the server answers s passes
\* validateApiResponse(envelope, s) without a throw.
C27_ClientAndValidatorAgree ==
    ValidatedAsExpected => ~vret.threw

\* The same, but for the 2xx statuses other than 200.
C27_AgreeUnlessOther2xx ==
    (ValidatedAsExpected
        /\ (reqs[1].expectedStatus = 200 \/ reqs[1].expectedStatus \notin 200..299))
        => ~vret.threw

\* C30: healthCheck() returns true exactly when its GET to /health resolves
\* with status 200; any other resolved status, other 2xx included, and any
\* failure give false.
C30_HealthyIffStatus200 ==
    (op.kind = "healthCheck" /\ Finished)
        => /\ reqs[1].url = BaseUrl \o "/health"
           /\ outcome = Resolved(/\ reqs[1].state = "resolved"
                                 /\ reqs[1].transport.response.status = 200)

\* /health answered 299 with a JSON body: get() resolved, healthCheck said false.
C30_Witness ==
    /\ op.kind = "healthCheck"
    /\ Finished
    /\ reqs[1].state = "resolved"
    /\ reqs[1].transport.response.status = 299
    /\ outcome = Resolved(FALSE)

====
